---- MODULE Spec2Model ----
(***************************************************************************)
(* Reveal gating and credit accounting of the ViQi matching backend.       *)
(*                                                                         *)
(* The committed database (users, matches with their match_results rows,   *)
(* usage_log) is shared by request sessions.  Every request owns one       *)
(* SQLAlchemy session: the rows it loads are private copies, attribute     *)
(* writes stay in the session until db.commit(), and a commit flushes the  *)
(* changed columns in one transaction.  Requests served by different       *)
(* workers interleave between their database round trips.                  *)
(***************************************************************************)
EXTENDS Integers, Sequences, FiniteSets, TLC

\* ---------------------------------------------------------------- bounds
MaxOps == 3
MaxMatches == 2
MaxCost == 2

\* ------------------------------------------------------ program constants
AdjustLimit == 100
StarterCredits == 50
SignupCredits == 1
SecondsPerDay == 86400
ExpiringSoonDays == 7
ExpiringMonthDays == 30

Users == {1, 2}
Sessions == {1, 2}
NoTime == 0 - 1
NoPlan == 0
StarterPlan == 1
NoSub == 0
SubId == 1

\* the users who create matches, buy credits and hold subscriptions
Customers == {1}
\* signed amounts passed to adjust_credits
AdjustChoices == {0 - 2, AdjustLimit + 1}
\* credits bought in one checkout session
PurchaseChoices == {2}
\* current_period_end values delivered by the billing provider
ExpiryChoices == {1, 2 * SecondsPerDay}
\* subscription statuses delivered by the billing provider
EventStatuses == {"active"}
\* the plan the subscribed price maps to, if any
PlanChoices == {NoPlan, StarterPlan}
\* recommendation lists (person ids) persisted by create_match; the list is
\* recommendations[:max_results], which is empty for max_results = 0
RecChoices == {<<>>, <<1>>, <<1, 2>>}

VARIABLES users, matches, usage_log, now, sess, cleanup_queue, nops,
          contact, response, meter, creation, poc, call, checkout, task

vars == <<users, matches, usage_log, now, sess, cleanup_queue, nops,
          contact, response, meter, creation, poc, call, checkout, task>>
\* the state of the specifications of single functions and single handlers,
\* which the actions of Next never touch
detached == <<contact, response, meter, creation, poc, call, checkout, task>>
\* the state of the database-backed routes
store == <<users, matches, usage_log, now, sess, cleanup_queue, nops>>
db == <<users, matches, usage_log>>

\* ------------------------------------------------------------------ rows
UserRow(b) ==
    [credits_balance |-> b,
     subscription_status |-> "none",
     stripe_subscription_id |-> NoSub,
     subscription_plan_id |-> NoPlan,
     subscription_expires_at |-> NoTime]

MatchRow(uid, cost, st, recs) ==
    [user_id |-> uid,
     credit_cost |-> cost,
     status |-> st,
     results |-> [i \in 1..Len(recs) |-> [person_id |-> recs[i], revealed_at |-> NoTime]]]

LogRow(uid, kind, amount) == [user_id |-> uid, kind |-> kind, amount |-> amount]

NoResp == [code |-> 0, kind |-> "none", match_id |-> 0, results |-> <<>>]
ErrorResp(code) == [code |-> code, kind |-> "error", match_id |-> 0, results |-> <<>>]

IdleSess ==
    [op |-> "none", pc |-> "idle", user_id |-> 0, match_id |-> 0, arg |-> 0,
     cu |-> UserRow(0), loaded |-> 0, m_status |-> "none", m_cost |-> 0,
     method |-> "none", resp |-> NoResp]

NewSess(op, uid, mid, arg, pc) ==
    [IdleSess EXCEPT !.op = op, !.pc = pc, !.user_id = uid, !.match_id = mid, !.arg = arg]

\* ---------------------------------------------------------- pure helpers
is_subscribed(u, t) ==
    /\ u.subscription_status \in {"active", "trialing"}
    /\ u.subscription_expires_at # NoTime
    /\ u.subscription_expires_at > t

\* ------------------------------------------------------- faulty variants
\* deliberately wrong versions of the definitions below; each breaks one of the
\* properties stated at the end of the module
AlreadyRevealed_Never(st) == st = "none"

HasCredits_Always(balance, cost) == balance >= 0

DeductionMethod_CreditsFirst(cu, cost, t) ==
    IF cu.credits_balance >= cost THEN "credits"
    ELSE IF is_subscribed(cu, t) THEN "subscription"
    ELSE "none"

RevealedStatus_Paid == "paid"

OwnsMatch_AnyOwner(ms, mid, uid) == mid \in 1..Len(ms)

AdjustedBalance_Unclamped(balance, credits) == balance + credits

StampRevealed_FirstOnly(rows, t) ==
    [i \in 1..Len(rows) |-> IF i = 1 THEN [rows[i] EXCEPT !.revealed_at = t] ELSE rows[i]]

\* ------------------------------------------------- pure helpers, continued
AlreadyRevealed(st) == st = "revealed"

HasCredits(balance, cost) == balance >= cost

\* the order of the entitlement checks: subscription, then credits
DeductionMethod(cu, cost, t) ==
    IF is_subscribed(cu, t) THEN "subscription"
    ELSE IF HasCredits(cu.credits_balance, cost) THEN "credits"
    ELSE "none"

\* the status written by a permitted reveal
RevealedStatus == "revealed"

OwnsMatch(ms, mid, uid) ==
    /\ mid \in 1..Len(ms)
    /\ ms[mid].user_id = uid

\* _get_revealed_results: the unmasked rows of a match
RevealedResponse(ms, mid) ==
    [code |-> 200, kind |-> "RevealResponse", match_id |-> mid,
     results |-> [i \in 1..Len(ms[mid].results) |->
                    [id |-> ms[mid].results[i].person_id, unmasked |-> TRUE]]]

\* the MatchResponse of create_match: masked previews of the persisted rows
PreviewResponse(ms, mid) ==
    [code |-> 200, kind |-> "MatchResponse", match_id |-> mid,
     results |-> [i \in 1..Len(ms[mid].results) |->
                    [id |-> ms[mid].results[i].person_id, unmasked |-> FALSE]]]

StampRevealed(rows, t) == [i \in 1..Len(rows) |-> [rows[i] EXCEPT !.revealed_at = t]]

\* a flush emits UPDATE only for attributes whose value differs from the loaded one
FlushBalance(us, uid, loaded, current) ==
    IF current # loaded THEN [us EXCEPT ![uid].credits_balance = current] ELSE us

AdjustedBalance(balance, credits) ==
    IF balance + credits < 0 THEN 0 ELSE balance + credits

\* the response is returned and the session closed
Finish(s, r) ==
    sess' = [sess EXCEPT ![s] = [IdleSess EXCEPT
                                   !.op = sess[s].op, !.pc = "done",
                                   !.user_id = sess[s].user_id,
                                   !.match_id = sess[s].match_id,
                                   !.method = sess[s].method,
                                   !.resp = r]]

Free(s) == sess[s].pc \in {"idle", "done", "aborted"}

\* no contact is being rendered
NoContact == [company |-> <<>>]
NoPreview == [kind |-> "none"]
\* no credit projection is being computed
NoMeter == [kind |-> "none"]
\* no create_match request is being followed step by step
NoCreation == [pc |-> "none"]
\* no create_match_poc request is being served
NoPoc == [pc |-> "none"]
\* no single function is being applied
NoCall == [fn |-> "none"]
\* no checkout session is being followed
NoCheckout == [status |-> "none"]
\* no run of the cleanup task is being followed step by step
NoTask == [pc |-> "none"]

\* ------------------------------------------------------------------ init
Init ==
    /\ users = [u \in Users |-> UserRow(SignupCredits)]
    /\ matches = <<>>
    /\ usage_log = <<>>
    /\ now = 0
    /\ sess = [s \in Sessions |-> IdleSess]
    /\ cleanup_queue = <<>>
    /\ nops = 0
    /\ contact = NoContact
    /\ response = NoPreview
    /\ meter = NoMeter
    /\ creation = NoCreation
    /\ poc = NoPoc
    /\ call = NoCall
    /\ checkout = NoCheckout
    /\ task = NoTask

\* ------------------------------------------------------- request arrival
\* a request is served by the lowest free worker; its session loads the user row
\* first (get_current_user, or the webhook handler's own query)
Accepts(s) ==
    /\ Free(s)
    /\ nops < MaxOps
    /\ \A r \in Sessions : r < s => ~Free(r)

Begin(s, op, uid, mid, arg, pc) ==
    /\ sess' = [sess EXCEPT ![s] = [NewSess(op, uid, mid, arg, pc) EXCEPT
                                      !.cu = users[uid],
                                      !.loaded = users[uid].credits_balance]]
    /\ nops' = nops + 1
    /\ UNCHANGED <<users, matches, usage_log, now, cleanup_queue, detached>>

StartCreate(s) ==
    /\ Accepts(s)
    /\ \E u \in Customers : Begin(s, "create", u, 0, 0, "create")

StartReveal(s) ==
    /\ Accepts(s)
    /\ \E u \in Users, m \in 1..MaxMatches : Begin(s, "reveal", u, m, 0, "load")

StartAdjust(s) ==
    /\ Accepts(s)
    /\ \E u \in Customers, c \in AdjustChoices : Begin(s, "adjust", u, 0, c, "commit")

StartPayment(s) ==
    /\ Accepts(s)
    /\ \E u \in Customers, c \in PurchaseChoices : Begin(s, "payment", u, 0, c, "commit")

StartRenewal(s) ==
    /\ Accepts(s)
    /\ \E u \in Customers : Begin(s, "renewal", u, 0, 0, "commit")

\* the client disconnects or the worker dies: the session is closed uncommitted
Abort(s) ==
    /\ sess[s].pc \in {"load", "commit", "create", "log"}
    /\ sess' = [sess EXCEPT ![s] = [IdleSess EXCEPT
                                      !.op = sess[s].op, !.pc = "aborted",
                                      !.user_id = sess[s].user_id,
                                      !.match_id = sess[s].match_id,
                                      !.method = sess[s].method]]
    /\ UNCHANGED <<users, matches, usage_log, now, cleanup_queue, nops, detached>>

\* ------------------------------------------------------------ create_match
\* candidates, LLM recommendations and cost are settled, then the match and its
\* match_results rows are committed with status preview
CreateMatch(s) ==
    /\ sess[s].pc = "create"
    /\ Len(matches) < MaxMatches
    /\ \E cost \in 1..MaxCost, recs \in RecChoices :
          /\ matches' = Append(matches, MatchRow(sess[s].user_id, cost, "preview", recs))
          /\ sess' = [sess EXCEPT ![s].match_id = Len(matches) + 1,
                                  ![s].arg = cost,
                                  ![s].pc = "log"]
    /\ UNCHANGED <<users, usage_log, now, cleanup_queue, nops, detached>>

\* any exception before the first commit is rolled back and answered with 500
CreateMatchError(s) ==
    /\ sess[s].pc = "create"
    /\ Finish(s, ErrorResp(500))
    /\ UNCHANGED <<users, matches, usage_log, now, cleanup_queue, nops, detached>>

\* the api_call usage row is committed on its own, then the preview is returned
CreateMatchLog(s) ==
    /\ sess[s].pc = "log"
    /\ usage_log' = Append(usage_log, LogRow(sess[s].user_id, "api_call", 1))
    /\ Finish(s, PreviewResponse(matches, sess[s].match_id))
    /\ UNCHANGED <<users, matches, now, cleanup_queue, nops, detached>>

\* ------------------------------------------------------------ reveal_match
\* the match is looked up by id and owner; an already revealed match is answered
\* from the stored rows; for a preview match the entitlement is decided:
\* subscription first, then credits, else 402.  The deduction is an attribute
\* write on the session's user object.
RevealCheck(s) ==
    /\ sess[s].pc = "load"
    /\ LET mid == sess[s].match_id
           cu == sess[s].cu
       IN IF ~OwnsMatch(matches, mid, sess[s].user_id)
            THEN Finish(s, ErrorResp(404))
          ELSE IF AlreadyRevealed(matches[mid].status)
            THEN Finish(s, RevealedResponse(matches, mid))
          ELSE IF matches[mid].status # "preview"
            THEN sess' = [sess EXCEPT ![s].m_status = matches[mid].status,
                                      ![s].m_cost = matches[mid].credit_cost,
                                      ![s].pc = "commit"]
          ELSE IF DeductionMethod(cu, matches[mid].credit_cost, now) = "subscription"
            THEN sess' = [sess EXCEPT ![s].m_status = "preview",
                                      ![s].m_cost = matches[mid].credit_cost,
                                      ![s].method = "subscription",
                                      ![s].pc = "commit"]
          ELSE IF DeductionMethod(cu, matches[mid].credit_cost, now) = "credits"
            THEN sess' = [sess EXCEPT ![s].m_status = "preview",
                                      ![s].m_cost = matches[mid].credit_cost,
                                      ![s].method = "credits",
                                      ![s].cu.credits_balance = @ - matches[mid].credit_cost,
                                      ![s].pc = "commit"]
          ELSE Finish(s, ErrorResp(402))
    /\ UNCHANGED <<users, matches, usage_log, now, cleanup_queue, nops, detached>>

\* faulty variant: the deduction and its usage row are committed, the status
\* change and the revealed_at stamps are not
RevealCommit_StatusLater(s) ==
    /\ sess[s].pc = "commit" /\ sess[s].op = "reveal"
    /\ users' = FlushBalance(users, sess[s].user_id, sess[s].loaded,
                             sess[s].cu.credits_balance)
    /\ usage_log' = IF sess[s].method = "credits"
                      THEN Append(usage_log, LogRow(sess[s].user_id, "contact_reveal",
                                                    sess[s].m_cost))
                      ELSE usage_log
    /\ Finish(s, RevealedResponse(matches, sess[s].match_id))
    /\ UNCHANGED <<matches, now, cleanup_queue, nops, detached>>

\* faulty variant: the commit also rewrites the stored credit_cost
RevealCommit_CostReset(s) ==
    /\ sess[s].pc = "commit" /\ sess[s].op = "reveal"
    /\ LET mid == sess[s].match_id
           uid == sess[s].user_id
           paid == sess[s].method = "credits"
       IN /\ users' = IF paid
                        THEN FlushBalance(users, uid, sess[s].loaded, sess[s].cu.credits_balance)
                        ELSE users
          /\ usage_log' = IF paid
                            THEN Append(usage_log, LogRow(uid, "contact_reveal", sess[s].m_cost))
                            ELSE usage_log
          /\ matches' = [matches EXCEPT
                           ![mid].status = IF sess[s].m_status = "preview" THEN RevealedStatus ELSE @,
                           ![mid].credit_cost = 0,
                           ![mid].results = StampRevealed(@, now)]
          /\ Finish(s, RevealedResponse(matches', mid))
    /\ UNCHANGED <<now, cleanup_queue, nops, detached>>

\* revealed_at is stamped on the rows and everything pending is committed at once
RevealCommit(s) ==
    /\ sess[s].pc = "commit" /\ sess[s].op = "reveal"
    /\ LET mid == sess[s].match_id
           uid == sess[s].user_id
           paid == sess[s].method = "credits"
       IN /\ users' = IF paid
                        THEN FlushBalance(users, uid, sess[s].loaded, sess[s].cu.credits_balance)
                        ELSE users
          /\ usage_log' = IF paid
                            THEN Append(usage_log, LogRow(uid, "contact_reveal", sess[s].m_cost))
                            ELSE usage_log
          /\ matches' = [matches EXCEPT
                           ![mid].status = IF sess[s].m_status = "preview" THEN RevealedStatus ELSE @,
                           ![mid].results = StampRevealed(@, now)]
          /\ Finish(s, RevealedResponse(matches', mid))
    /\ UNCHANGED <<now, cleanup_queue, nops, detached>>

\* ---------------------------------------------------------- adjust_credits
AdjustCommit(s) ==
    /\ sess[s].pc = "commit" /\ sess[s].op = "adjust"
    /\ LET credits == sess[s].arg
           uid == sess[s].user_id
           absval == IF credits < 0 THEN 0 - credits ELSE credits
           nb == AdjustedBalance(sess[s].cu.credits_balance, credits)
       IN IF absval > AdjustLimit
            THEN /\ Finish(s, ErrorResp(400))
                 /\ UNCHANGED <<users, usage_log>>
            ELSE /\ users' = FlushBalance(users, uid, sess[s].loaded, nb)
                 /\ usage_log' = Append(usage_log, LogRow(uid, "credit_adjustment", credits))
                 /\ Finish(s, [code |-> 200, kind |-> "adjusted", match_id |-> 0, results |-> <<>>])
    /\ UNCHANGED <<matches, now, cleanup_queue, nops, detached>>

\* ------------------------------------------------ handle_successful_payment
PaymentCommit(s) ==
    /\ sess[s].pc = "commit" /\ sess[s].op = "payment"
    /\ LET uid == sess[s].user_id IN
         /\ users' = FlushBalance(users, uid, sess[s].loaded,
                                  sess[s].cu.credits_balance + sess[s].arg)
         /\ usage_log' = Append(usage_log, LogRow(uid, "credit_purchase", sess[s].arg))
         /\ Finish(s, [code |-> 200, kind |-> "webhook", match_id |-> 0, results |-> <<>>])
    /\ UNCHANGED <<matches, now, cleanup_queue, nops, detached>>

\* ----------------------------------------- handle_invoice_payment_succeeded
IncludedCredits(plan) == IF plan = StarterPlan THEN StarterCredits ELSE 0

RenewalCommit(s) ==
    /\ sess[s].pc = "commit" /\ sess[s].op = "renewal"
    /\ LET uid == sess[s].user_id
           plan == sess[s].cu.subscription_plan_id
           add == IncludedCredits(plan)
       IN IF plan # NoPlan
            THEN /\ users' = FlushBalance(users, uid, sess[s].loaded,
                                          sess[s].cu.credits_balance + add)
                 /\ usage_log' = Append(usage_log, LogRow(uid, "subscription_renewal", add))
            ELSE UNCHANGED <<users, usage_log>>
    /\ Finish(s, [code |-> 200, kind |-> "webhook", match_id |-> 0, results |-> <<>>])
    /\ UNCHANGED <<matches, now, cleanup_queue, nops, detached>>

\* ------------------------------------------------- subscription webhooks
\* handle_subscription_created: status, expiry and (when the price maps to a plan)
\* the plan are overwritten with the provider's values
SubscriptionCreated(u) ==
    /\ nops < MaxOps
    /\ \E st \in EventStatuses, exp \in ExpiryChoices, plan \in PlanChoices :
          users' = [users EXCEPT
                      ![u].stripe_subscription_id = SubId,
                      ![u].subscription_status = st,
                      ![u].subscription_expires_at = exp,
                      ![u].subscription_plan_id = IF plan # NoPlan THEN plan ELSE @]
    /\ nops' = nops + 1
    /\ UNCHANGED <<matches, usage_log, now, sess, cleanup_queue, detached>>

\* handle_subscription_updated: the user is found by the stored subscription id
SubscriptionUpdated(u) ==
    /\ nops < MaxOps
    /\ users[u].stripe_subscription_id # NoSub
    /\ \E st \in EventStatuses, exp \in ExpiryChoices :
          users' = [users EXCEPT
                      ![u].subscription_status = st,
                      ![u].subscription_expires_at = exp]
    /\ nops' = nops + 1
    /\ UNCHANGED <<matches, usage_log, now, sess, cleanup_queue, detached>>

\* handle_subscription_deleted
SubscriptionDeleted(u) ==
    /\ nops < MaxOps
    /\ users[u].stripe_subscription_id # NoSub
    /\ users' = [users EXCEPT
                   ![u].subscription_status = "canceled",
                   ![u].stripe_subscription_id = NoSub,
                   ![u].subscription_expires_at = NoTime,
                   ![u].subscription_plan_id = NoPlan]
    /\ nops' = nops + 1
    /\ UNCHANGED <<matches, usage_log, now, sess, cleanup_queue, detached>>

\* handle_invoice_payment_failed
InvoicePaymentFailed(u) ==
    /\ nops < MaxOps
    /\ users[u].stripe_subscription_id # NoSub
    /\ users' = [users EXCEPT ![u].subscription_status = "past_due"]
    /\ nops' = nops + 1
    /\ UNCHANGED <<matches, usage_log, now, sess, cleanup_queue, detached>>

\* ------------------------------------------------------------ cleanup task
\* faulty variant: the windows are measured in seconds, not in whole days
check_subscription_expiry_Exact(u, t) ==
    IF u.subscription_expires_at = NoTime
      THEN "no_subscription"
      ELSE LET left == u.subscription_expires_at - t
           IN IF left <= 0 THEN "expired"
              ELSE IF left <= ExpiringSoonDays * SecondsPerDay THEN "expiring_soon"
              ELSE IF left <= ExpiringMonthDays * SecondsPerDay THEN "expiring_within_month"
              ELSE "active"

check_subscription_expiry(u, t) ==
    IF u.subscription_expires_at = NoTime
      THEN "no_subscription"
      ELSE LET left == u.subscription_expires_at - t
               days == left \div SecondsPerDay
           IN IF left <= 0 THEN "expired"
              ELSE IF days <= ExpiringSoonDays THEN "expiring_soon"
              ELSE IF days <= ExpiringMonthDays THEN "expiring_within_month"
              ELSE "active"

action_needed(st) == st \in {"expired", "expiring_soon"}

\* handle_expired_subscription
ExpiredRow(u) ==
    [u EXCEPT !.subscription_status = "expired",
              !.stripe_subscription_id = NoSub,
              !.subscription_expires_at = NoTime,
              !.subscription_plan_id = NoPlan]

\* sync_subscription_from_stripe: the provider's answer decides the outcome
SyncOutcomes(u) ==
    {u}
    \cup {[u EXCEPT !.subscription_status = "inactive",
                    !.stripe_subscription_id = NoSub,
                    !.subscription_expires_at = NoTime,
                    !.subscription_plan_id = NoPlan]}
    \cup {[u EXCEPT !.subscription_status = st,
                    !.stripe_subscription_id = SubId,
                    !.subscription_expires_at = exp]
            : st \in {"active", "trialing"}, exp \in ExpiryChoices}

SelectedForCleanup(us) ==
    {u \in Users : /\ us[u].subscription_status \in {"active", "trialing", "past_due"}
                   /\ us[u].subscription_expires_at # NoTime}

RECURSIVE AscendingSeq(_)
AscendingSeq(S) ==
    IF S = {} THEN <<>>
    ELSE LET lo == CHOOSE x \in S : \A y \in S : x <= y
         IN <<lo>> \o AscendingSeq(S \ {lo})

\* cleanup_expired_subscriptions: the users to check are queried once
CleanupStart ==
    /\ cleanup_queue = <<>>
    /\ nops < MaxOps
    /\ SelectedForCleanup(users) # {}
    /\ cleanup_queue' = AscendingSeq(SelectedForCleanup(users))
    /\ nops' = nops + 1
    /\ UNCHANGED <<users, matches, usage_log, now, sess, detached>>

\* one iteration of the loop over the selected users
CleanupStep ==
    /\ cleanup_queue # <<>>
    /\ LET u == Head(cleanup_queue)
           st == check_subscription_expiry(users[u], now)
       IN IF st = "expired"
            THEN users' = [users EXCEPT ![u] = ExpiredRow(@)]
            ELSE IF action_needed(st)
              THEN \E row \in SyncOutcomes(users[u]) : users' = [users EXCEPT ![u] = row]
              ELSE UNCHANGED users
    /\ cleanup_queue' = Tail(cleanup_queue)
    /\ UNCHANGED <<matches, usage_log, now, sess, nops, detached>>

\* -------------------------------------------------------------------- time
Tick ==
    /\ nops < MaxOps
    /\ now' = now + 1
    /\ nops' = nops + 1
    /\ UNCHANGED <<users, matches, usage_log, sess, cleanup_queue, detached>>

\* ----------------------------------------------------------- specification
Next ==
    \/ \E s \in Sessions : StartCreate(s)
    \/ \E s \in Sessions : StartReveal(s)
    \/ \E s \in Sessions : StartAdjust(s)
    \/ \E s \in Sessions : StartPayment(s)
    \/ \E s \in Sessions : StartRenewal(s)
    \/ \E s \in Sessions : Abort(s)
    \/ \E s \in Sessions : CreateMatch(s)
    \/ \E s \in Sessions : CreateMatchError(s)
    \/ \E s \in Sessions : CreateMatchLog(s)
    \/ \E s \in Sessions : RevealCheck(s)
    \/ \E s \in Sessions : RevealCommit(s)
    \/ \E s \in Sessions : AdjustCommit(s)
    \/ \E s \in Sessions : PaymentCommit(s)
    \/ \E s \in Sessions : RenewalCommit(s)
    \/ \E u \in Customers : SubscriptionCreated(u)
    \/ \E u \in Customers : SubscriptionUpdated(u)
    \/ \E u \in Customers : SubscriptionDeleted(u)
    \/ \E u \in Customers : InvoicePaymentFailed(u)
    \/ CleanupStart
    \/ CleanupStep
    \/ Tick

Spec == Init /\ [][Next]_vars

\* a store that already holds one match row of the customer, in any status the
\* matches.status column documents (preview, paid, revealed)
StoredStatuses == {"preview", "paid", "revealed"}

StoredMatch(st, cost) ==
    [MatchRow(1, cost, st, <<1, 2>>) EXCEPT
       !.results = IF st = "revealed" THEN StampRevealed(@, 0) ELSE @]

InitStored ==
    /\ users = [u \in Users |-> UserRow(SignupCredits)]
    /\ \E st \in StoredStatuses, cost \in 1..MaxCost : matches = <<StoredMatch(st, cost)>>
    /\ usage_log = <<>>
    /\ now = 0
    /\ sess = [s \in Sessions |-> IdleSess]
    /\ cleanup_queue = <<>>
    /\ nops = 0
    /\ contact = NoContact
    /\ response = NoPreview
    /\ meter = NoMeter
    /\ creation = NoCreation
    /\ poc = NoPoc
    /\ call = NoCall
    /\ checkout = NoCheckout
    /\ task = NoTask

SpecStored == InitStored /\ [][Next]_vars

\* ====================================================== preview rendering
\* Text is a sequence of one-character strings.
MaxName == 5
MaxLocal == 3

NameChars == {"A", "b", " "}
LocalChars == {"a", "b"}

SeqsUpTo(S, n) == UNION {[1..k -> S] : k \in 1..n}

\* company names, mailbox names, domains and the addresses built from them; an
\* address without "@" is what a free-text LLM field may hold
CompanyChoices == SeqsUpTo(NameChars, MaxName)
LocalChoices == SeqsUpTo(LocalChars, MaxLocal)
DomainChoices ==
    {<<"a", ".", "c">>, <<"a", "b", "a", "b", ".", "c">>, <<"a", "b", "a", ".", "c">>,
     <<"a", ".", "b", ".", "c">>, <<"a", "b">>}
EmailChoices ==
    {l \o <<"@">> \o d : l \in LocalChoices, d \in DomainChoices} \cup LocalChoices
GeneratedChoices == {<<>>, <<"b", "@", "a", ".", "c">>}
FullNameChoices == {<<"A", " ", "b">>}

Stars(n) == [i \in 1..n |-> "*"]
MaskedPlaceholder == <<"*", "*", "*", "@", "*", "*", "*", ".", "*", "*", "*">>

\* str.lower
LowerChar(c) == IF c = "A" THEN "a" ELSE c
lower(s) == [i \in 1..Len(s) |-> LowerChar(s[i])]

StartsWith(s, p) == Len(p) <= Len(s) /\ SubSeq(s, 1, Len(p)) = p

\* str.replace: every non-overlapping occurrence, left to right; an empty
\* pattern matches before every character and at the end
RECURSIVE replace(_, _, _)
replace(s, old, new) ==
    IF old = <<>>
      THEN IF s = <<>> THEN new ELSE new \o <<Head(s)>> \o replace(Tail(s), old, new)
    ELSE IF s = <<>> THEN <<>>
    ELSE IF StartsWith(s, old)
      THEN new \o replace(SubSeq(s, Len(old) + 1, Len(s)), old, new)
    ELSE <<Head(s)>> \o replace(Tail(s), old, new)

Contains(s, c) == \E i \in 1..Len(s) : s[i] = c

\* str.split(sep) for a one-character separator
RECURSIVE split(_, _)
split(s, c) ==
    IF ~Contains(s, c) THEN <<s>>
    ELSE LET k == CHOOSE i \in 1..Len(s) : s[i] = c /\ \A j \in 1..(i - 1) : s[j] # c
         IN <<SubSeq(s, 1, k - 1)>> \o split(SubSeq(s, k + 1, Len(s)), c)

\* str.split() without argument: the words between runs of blanks
NonEmptyText(w) == w # <<>>
split_words(s) == SelectSeq(split(s, " "), NonEmptyText)

\* sep.join(parts)
RECURSIVE join(_, _)
join(parts, sep) ==
    IF parts = <<>> THEN <<>>
    ELSE IF Len(parts) = 1 THEN parts[1]
    ELSE parts[1] \o sep \o join(Tail(parts), sep)

LastIndexOf(s, c) == CHOOSE i \in 1..Len(s) : s[i] = c /\ \A j \in (i + 1)..Len(s) : s[j] # c

\* first character, stars, last character
MaskMiddle(w) == <<w[1]>> \o Stars(Len(w) - 2) \o <<w[Len(w)]>>

\* matching.py
mask_company_name(name) ==
    IF Len(name) <= 3 THEN Stars(Len(name)) ELSE MaskMiddle(name)

\* seed_db.py: the pre-computed people.email_masked column
seed_mask_email(email) ==
    IF email = <<>> \/ ~Contains(email, "@") THEN MaskedPlaceholder
    ELSE LET parts == split(email, "@")
             local == parts[1]
             domain == join(Tail(parts), <<"@">>)
         IN IF ~Contains(domain, ".")
              THEN <<local[1]>> \o Stars(3) \o <<"@">>
                   \o SubSeq(domain, 1, IF Len(domain) < 2 THEN Len(domain) ELSE 2)
                   \o Stars(3) \o <<".">> \o Stars(3)
              ELSE LET k == LastIndexOf(domain, ".")
                       domain_name == SubSeq(domain, 1, k - 1)
                       tld == SubSeq(domain, k + 1, Len(domain))
                       masked_local == IF Len(local) <= 2 THEN <<local[1], "*">>
                                       ELSE MaskMiddle(local)
                       masked_domain == IF Len(domain_name) <= 2
                                          THEN <<domain_name[1], "*">>
                                          ELSE MaskMiddle(domain_name)
                   IN masked_local \o <<"@">> \o masked_domain \o <<".">> \o tld

\* what the people table and the LLM recommendation hold for one contact
ContactRow(company, full_name, email, stored_mask, generated) ==
    [company |-> company,
     full_name |-> full_name,
     email_plain |-> email,
     email_masked |-> stored_mask,
     email_address |-> generated]

\* create_match: the address persisted as match_results.email_plain
email_to_use(c) ==
    IF c.email_address # <<>> THEN c.email_address
    ELSE IF c.email_plain # <<>> THEN c.email_plain
    ELSE replace(lower(c.full_name), <<" ">>, <<".">>) \o <<"@">>
         \o replace(lower(c.company), <<" ">>, <<>>) \o <<".", "c", "o", "m">>

\* create_match: match_results.email_masked
preview_email_masked(c) ==
    LET e == email_to_use(c) IN
    IF e # <<>>
      THEN IF c.email_masked # <<>> THEN c.email_masked
           ELSE replace(e, split(e, "@")[1], Stars(3))
      ELSE MaskedPlaceholder

\* create_match: the PersonPreview of one persisted row
PersonPreview(c) ==
    [kind |-> "PersonPreview",
     company_name |-> mask_company_name(c.company),
     company_blurred |-> TRUE,
     email_masked |-> preview_email_masked(c)]

\* faulty variant: only the mailbox name is masked
mask_email_LocalOnly(email) ==
    IF ~Contains(email, "@") THEN email
    ELSE LET parts == split(email, "@")
         IN (IF Len(parts[1]) <= 2 THEN Stars(Len(parts[1])) ELSE MaskMiddle(parts[1]))
            \o <<"@">> \o parts[2]

\* matching_poc.py
mask_email(email) ==
    IF ~Contains(email, "@") THEN email
    ELSE LET parts == split(email, "@")
             local == parts[1]
             domain == parts[2]
             masked_local == IF Len(local) <= 2 THEN Stars(Len(local)) ELSE MaskMiddle(local)
             domain_parts == split(domain, ".")
             main_domain == domain_parts[1]
             masked_domain ==
                 IF Len(domain_parts) >= 2
                   THEN (IF Len(main_domain) <= 3 THEN Stars(Len(main_domain))
                         ELSE MaskMiddle(main_domain))
                        \o <<".">> \o join(Tail(domain_parts), <<".">>)
                   ELSE domain
         IN masked_local \o <<"@">> \o masked_domain

blur_word(word) ==
    IF Len(word) <= 2 THEN Stars(Len(word))
    ELSE IF Len(word) <= 4 THEN <<word[1]>> \o Stars(Len(word) - 1)
    ELSE MaskMiddle(word)

blur_company_name(company) ==
    IF Len(company) <= 3 THEN Stars(Len(company))
    ELSE LET words == split_words(company)
         IN join([i \in 1..Len(words) |-> blur_word(words[i])], <<" ">>)

\* _build_match_response: the MatchResult of one LLM result
PocMatchResult(c, is_paid) ==
    [kind |-> "MatchResult",
     revealed |-> is_paid,
     company_name |-> c.company,
     company_blurred |-> IF is_paid THEN c.company ELSE blur_company_name(c.company),
     email_plain |-> IF is_paid THEN c.email_plain ELSE <<>>,
     email_masked |-> IF is_paid THEN c.email_plain ELSE mask_email(c.email_plain),
     raw_email |-> c.email_plain]

InitPreview ==
    /\ users = [u \in Users |-> UserRow(SignupCredits)]
    /\ matches = <<>>
    /\ usage_log = <<>>
    /\ now = 0
    /\ sess = [s \in Sessions |-> IdleSess]
    /\ cleanup_queue = <<>>
    /\ nops = 0
    /\ \E company \in CompanyChoices, full_name \in FullNameChoices,
          email \in EmailChoices \cup {<<>>}, generated \in GeneratedChoices :
          \E stored_mask \in {<<>>, seed_mask_email(email)} :
             contact = ContactRow(company, full_name, email, stored_mask, generated)
    /\ response = NoPreview
    /\ meter = NoMeter
    /\ creation = NoCreation
    /\ poc = NoPoc
    /\ call = NoCall
    /\ checkout = NoCheckout
    /\ task = NoTask

\* create_match renders the preview of the contact
RenderPreview ==
    /\ response = NoPreview
    /\ response' = PersonPreview(contact)
    /\ UNCHANGED <<users, matches, usage_log, now, sess, cleanup_queue, nops, contact, meter, creation, poc, call, checkout, task>>

\* create_match_poc renders the contact for a paying or a non-paying caller
RenderPoc ==
    /\ response = NoPreview
    /\ \E is_paid \in BOOLEAN : response' = PocMatchResult(contact, is_paid)
    /\ UNCHANGED <<users, matches, usage_log, now, sess, cleanup_queue, nops, contact, meter, creation, poc, call, checkout, task>>

NextPreview == RenderPreview \/ RenderPoc

SpecPreview == InitPreview /\ [][NextPreview]_vars

\* ======================================================= credit projection
MaxMeter == 3

\* plan allowance, billed usage, unbilled usage and the cost of the new query
IncludedChoices == 0..MaxMeter \cup {StarterCredits}
UsedChoices == 0..(MaxMeter + 1) \cup {10}
PendingChoices == 0..MaxMeter
AdditionalChoices == (0 - MaxMeter)..MaxMeter \cup {5}

\* Python's max(a, b)
max(a, b) == IF a >= b THEN a ELSE b

\* faulty variant: the remainders are not floored at zero
project_credit_balances_Unfloored(included_credits, usage_summary, additional_usage) ==
    [used |-> usage_summary.used,
     remaining |-> included_credits - usage_summary.used,
     pending |-> usage_summary.pending + max(additional_usage, 0),
     projected_used |-> usage_summary.used + max(additional_usage, 0),
     projected_remaining |->
         included_credits - (usage_summary.used + max(additional_usage, 0))]

\* stripe_metering.py
project_credit_balances(included_credits, usage_summary, additional_usage) ==
    LET used == usage_summary.used
        projected_used == used + max(additional_usage, 0)
        pending == usage_summary.pending + max(additional_usage, 0)
        remaining == max(included_credits - used, 0)
        projected_remaining == max(included_credits - projected_used, 0)
    IN [used |-> used,
        remaining |-> remaining,
        pending |-> pending,
        projected_used |-> projected_used,
        projected_remaining |-> projected_remaining]

UsageSummary(used, pending) == [used |-> used, pending |-> pending]

InitMeter ==
    /\ users = [u \in Users |-> UserRow(SignupCredits)]
    /\ matches = <<>>
    /\ usage_log = <<>>
    /\ now = 0
    /\ sess = [s \in Sessions |-> IdleSess]
    /\ cleanup_queue = <<>>
    /\ nops = 0
    /\ contact = NoContact
    /\ response = NoPreview
    /\ creation = NoCreation
    /\ poc = NoPoc
    /\ call = NoCall
    /\ checkout = NoCheckout
    /\ task = NoTask
    /\ \E inc \in IncludedChoices, used \in UsedChoices,
          pend \in PendingChoices, add \in AdditionalChoices :
          meter = [kind |-> "call", included_credits |-> inc,
                   usage_summary |-> UsageSummary(used, pend),
                   additional_usage |-> add]

\* the projection is computed for the drawn arguments
ProjectBalances ==
    /\ meter.kind = "call"
    /\ meter' = [kind |-> "result",
                 included_credits |-> meter.included_credits,
                 usage_summary |-> meter.usage_summary,
                 additional_usage |-> meter.additional_usage,
                 balances |-> project_credit_balances(meter.included_credits,
                                                      meter.usage_summary,
                                                      meter.additional_usage)]
    /\ UNCHANGED <<store, contact, response, creation, poc, call, checkout, task>>

NextMeter == ProjectBalances

SpecMeter == InitMeter /\ [][NextMeter]_vars

\* ================================================== create_match in detail
MaxPool == 6
MaxResults == 5

\* the fixed number of recommendations the LLM service hands back at most
ValidatedCap == 4
FallbackCap == 4

\* sequence[:n] for n >= 0
Take(s, n) == SubSeq(s, 1, IF n < Len(s) THEN n ELSE Len(s))

FirstIds(n) == [i \in 1..n |-> i]
UnknownId == MaxPool + 1

\* _get_candidates: the people rows, by id
Candidates(pool) == FirstIds(pool)

SeqRange(s) == {s[i] : i \in 1..Len(s)}

Recommendation(person_id, origin) == [person_id |-> person_id, origin |-> origin]
PersonIds(recs) == [i \in 1..Len(recs) |-> recs[i].person_id]

ZeroTokens == [prompt |-> 0, completion |-> 0, total |-> 0]
\* _call_gemini: 1.3 tokens per word; prompt and completion are kept in tenths
EstimatedTokens(prompt_words, completion_words) ==
    [prompt |-> prompt_words * 13,
     completion |-> completion_words * 13,
     total |-> (prompt_words * 13 + completion_words * 13) \div 10]

\* what the provider does with the matching prompt
LlmAnswer(ids, tokens) == [kind |-> "answer", person_ids |-> ids, tokens |-> tokens]
LlmCallFailed == [kind |-> "call_failed", person_ids |-> <<>>, tokens |-> ZeroTokens]
LlmUnusable == [kind |-> "raised", person_ids |-> <<>>, tokens |-> ZeroTokens]
LlmChoices ==
    {LlmAnswer(ids, EstimatedTokens(10, 3)) :
        ids \in {FirstIds(k) : k \in 0..MaxPool} \cup {<<UnknownId, 1>>, <<1, 1, 2>>}}
    \cup {LlmCallFailed, LlmUnusable}

\* _validate_recommendations, first loop: known ids are kept in order until
\* the list holds ValidatedCap entries
RECURSIVE KeepKnown(_, _, _)
KeepKnown(ids, known, acc) ==
    IF ids = <<>> \/ Len(acc) >= ValidatedCap THEN acc
    ELSE IF Head(ids) \in known
      THEN KeepKnown(Tail(ids), known, Append(acc, Recommendation(Head(ids), "llm")))
      ELSE KeepKnown(Tail(ids), known, acc)

\* _validate_recommendations, second loop: unused candidates fill the list up
RECURSIVE Backfill(_, _)
Backfill(validated, cands) ==
    IF Len(validated) < ValidatedCap /\ Len(validated) < Len(cands)
      THEN LET remaining == SelectSeq(cands, LAMBDA c : c \notin SeqRange(PersonIds(validated)))
           IN IF remaining = <<>> THEN validated
              ELSE Backfill(Append(validated, Recommendation(remaining[1], "backfill")), cands)
      ELSE validated

validate_recommendations(ids, cands) ==
    Backfill(KeepKnown(ids, SeqRange(cands), <<>>), cands)

generate_fallback_matches(cands) ==
    [i \in 1..Len(Take(cands, FallbackCap)) |-> Recommendation(cands[i], "fallback")]

\* generate_matches: the recommendations and the token usage
generate_matches(llm, cands) ==
    IF llm.kind = "raised"
      THEN [recommendations |-> generate_fallback_matches(Take(cands, FallbackCap)),
            tokens |-> ZeroTokens]
      ELSE [recommendations |-> validate_recommendations(llm.person_ids, cands),
            tokens |-> llm.tokens]

\* create_match: the recommendations that become match_results rows
persisted_recommendations(recommendations, max_results) ==
    Take(recommendations, max_results)

MatchResponse(mid, recs, cost, tokens) ==
    [code |-> 200, kind |-> "MatchResponse", match_id |-> mid,
     results |-> [i \in 1..Len(recs) |->
                    [id |-> recs[i].person_id, unmasked |-> FALSE, origin |-> recs[i].origin]],
     credit_cost |-> cost, token_usage |-> tokens, status |-> "preview"]

InitCreate ==
    /\ users = [u \in Users |-> UserRow(SignupCredits)]
    /\ matches = <<>>
    /\ usage_log = <<>>
    /\ now = 0
    /\ sess = [s \in Sessions |-> IdleSess]
    /\ cleanup_queue = <<>>
    /\ nops = 0
    /\ contact = NoContact
    /\ response = NoPreview
    /\ meter = NoMeter
    /\ poc = NoPoc
    /\ call = NoCall
    /\ checkout = NoCheckout
    /\ task = NoTask
    /\ \E pool \in 0..MaxPool, max_results \in 0..MaxResults,
          llm \in LlmChoices, cost \in 1..MaxCost, u \in Customers :
          creation = [pc |-> "start", user_id |-> u, pool |-> pool, llm |-> llm,
                      max_results |-> max_results, cost |-> cost,
                      recommendations |-> <<>>, token_usage |-> ZeroTokens,
                      match_id |-> 0, resp |-> NoResp]

\* the candidate pool is read and the recommendations are generated; the 404
\* raised for an empty pool is caught by the handler's own except clause,
\* which rolls back and answers 500
CreationGenerate ==
    /\ creation.pc = "start"
    /\ IF Candidates(creation.pool) = <<>>
         THEN creation' = [creation EXCEPT !.pc = "done", !.resp = ErrorResp(500)]
         ELSE LET g == generate_matches(creation.llm, Candidates(creation.pool))
              IN creation' = [creation EXCEPT !.pc = "persist",
                                              !.recommendations = g.recommendations,
                                              !.token_usage = g.tokens]
    /\ UNCHANGED <<store, contact, response, meter, poc, call, checkout, task>>

\* the match and one match_results row per kept recommendation are committed
CreationPersist ==
    /\ creation.pc = "persist"
    /\ LET kept == persisted_recommendations(creation.recommendations, creation.max_results)
       IN /\ matches' = Append(matches, MatchRow(creation.user_id, creation.cost,
                                                 "preview", PersonIds(kept)))
          /\ creation' = [creation EXCEPT !.pc = "log",
                                          !.recommendations = kept,
                                          !.match_id = Len(matches) + 1]
    /\ UNCHANGED <<users, usage_log, now, sess, cleanup_queue, nops,
                   contact, response, meter, poc, call, checkout, task>>

\* the api_call usage row is committed and the preview returned
CreationLog ==
    /\ creation.pc = "log"
    /\ usage_log' = Append(usage_log, LogRow(creation.user_id, "api_call", 1))
    /\ creation' = [creation EXCEPT
                      !.pc = "done",
                      !.resp = MatchResponse(creation.match_id, creation.recommendations,
                                             creation.cost, creation.token_usage)]
    /\ UNCHANGED <<users, matches, now, sess, cleanup_queue, nops,
                   contact, response, meter, poc, call, checkout, task>>

NextCreate == CreationGenerate \/ CreationPersist \/ CreationLog

SpecCreate == InitCreate /\ [][NextCreate]_vars

\* ==================================================== create_match_poc
\* The session-only route: no database, entitlement is looked up at the
\* billing provider by e-mail, results come from the LLM provider.  The
\* outcome of every provider call is drawn when the request arrives.

\* matching_poc.py: CREDIT_COST_MIN, CREDIT_COST_MAX, CREDIT_COST_DEFAULT
CREDIT_COST_MIN == 1
CREDIT_COST_MAX == 10
CREDIT_COST_DEFAULT == 1
\* matching_poc.py: len(MOCK_LLM_RESULTS)
MockResultCount == 4

\* Python's None
Null == [none |-> TRUE]
\* a request without user_email: the handler tests `not request.user_email`,
\* which None and the empty string both satisfy
NoEmail == ""

min(a, b) == IF a <= b THEN a ELSE b

\* what the billing provider does during one subscription lookup
LookupOutcomes == {"list_raises", "no_subscription", "subscription", "product_raises"}
\* what it does when asked for the usage record summaries
SummaryOutcomes ==
    {[kind |-> "raises"], [kind |-> "empty"]}
    \cup {[kind |-> "summary", total_usage |-> t, invoice_estimated |-> i] :
             t \in {3}, i \in {1, 5}}
\* what it does when asked to create a usage record
RecordOutcomes == {"raises", "created"}
\* what the LLM provider's estimator hands back: a number, or it fails
EstimateOutcomes ==
    {[kind |-> "failed"]} \cup {[kind |-> "number", value |-> n] : n \in {0, 3, 12}}
\* what the LLM provider's generate_json_array does: it raises
\* LLMProviderError, or returns a JSON list whose entries are objects, or
\* returns a JSON list whose entries are not objects
GenerateOutcomes == {"provider_error", "objects", "not_objects"}
\* number of entries in a returned JSON list
MaxGenerated == 5
PocEmails == {NoEmail, "u@studio.com"}
PocMaxResults == {1, 4, 5}

SubscriptionInfo(plan_name) ==
    [subscription_item_id |-> "si_1",
     included_credits |-> StarterCredits,
     plan_name |-> plan_name]

\* faulty variant: a failed listing is answered as an entitlement
get_subscription_info_for_email_FailOpen(email, outcome) ==
    IF email = NoEmail THEN Null
    ELSE CASE outcome = "list_raises" -> SubscriptionInfo("Starter")
           [] outcome = "no_subscription" -> Null
           [] outcome = "subscription" -> SubscriptionInfo("Starter")
           [] outcome = "product_raises" -> SubscriptionInfo(Null)

\* stripe_metering.py: the listing calls sit in one try block whose handler
\* falls through to `return None`; Product.retrieve has its own handler
\* that leaves plan_name None and returns the info all the same
get_subscription_info_for_email(email, outcome) ==
    IF email = NoEmail THEN Null
    ELSE CASE outcome = "list_raises" -> Null
           [] outcome = "no_subscription" -> Null
           [] outcome = "subscription" -> SubscriptionInfo("Starter")
           [] outcome = "product_raises" -> SubscriptionInfo(Null)

get_usage_summary(subscription_item_id, outcome) ==
    IF subscription_item_id = "" THEN UsageSummary(0, 0)
    ELSE IF outcome.kind = "summary"
         THEN UsageSummary(outcome.total_usage,
                           max(outcome.total_usage - outcome.invoice_estimated, 0))
         ELSE UsageSummary(0, 0)

record_usage(subscription_item_id, quantity, outcome) ==
    IF subscription_item_id = "" \/ quantity = 0 THEN Null
    ELSE IF outcome = "created"
         THEN [subscription_item |-> subscription_item_id, quantity |-> quantity]
         ELSE Null

\* TRUE when record_usage reaches the provider
UsageRecordingCalled(subscription_item_id, quantity) ==
    subscription_item_id # "" /\ quantity # 0

\* llm_provider.estimate_credit_cost returns the default when the
\* provider fails; the route clamps what it gets
estimate_credit_cost(outcome) ==
    LET raw == IF outcome.kind = "failed" THEN CREDIT_COST_DEFAULT ELSE outcome.value
    IN max(CREDIT_COST_MIN, min(CREDIT_COST_MAX, raw))

\* results_source as far as the response builder looks at it
ResultsSource(origin, count, objects) ==
    [origin |-> origin, count |-> count, objects |-> objects]

MOCK_LLM_RESULTS == ResultsSource("mock", MockResultCount, TRUE)

call_llm_api(outcome) ==
    CASE outcome = "provider_error" -> MOCK_LLM_RESULTS
      [] outcome = "objects" -> ResultsSource("llm", MaxGenerated, TRUE)
      [] outcome = "not_objects" -> ResultsSource("llm", MaxGenerated, FALSE)

\* _build_match_response calls result.get on every entry it keeps
BuildRaises(results_source, max_results) ==
    ~results_source.objects /\ min(results_source.count, max_results) > 0

PocMatchResponse(results_source, max_results, is_paid, credits_charged, credit_summary) ==
    [kind |-> "MatchResponse",
     results |-> min(results_source.count, max_results),
     origin |-> results_source.origin,
     revealed |-> is_paid,
     credits_charged |-> credits_charged,
     credit_summary |-> credit_summary]

CreditSummary(info, balances) ==
    [included_credits |-> info.included_credits,
     used_credits |-> balances.used,
     remaining_credits |-> balances.remaining,
     pending_credits |-> balances.pending,
     projected_used_credits |-> balances.projected_used,
     projected_remaining_credits |-> balances.projected_remaining]

InitPoc ==
    /\ users = [u \in Users |-> UserRow(SignupCredits)]
    /\ matches = <<>>
    /\ usage_log = <<>>
    /\ now = 0
    /\ sess = [s \in Sessions |-> IdleSess]
    /\ cleanup_queue = <<>>
    /\ nops = 0
    /\ contact = NoContact
    /\ response = NoPreview
    /\ meter = NoMeter
    /\ creation = NoCreation
    /\ call = NoCall
    /\ checkout = NoCheckout
    /\ task = NoTask
    /\ \E email \in PocEmails, mr \in PocMaxResults,
          l1 \in LookupOutcomes, l2 \in LookupOutcomes,
          su \in SummaryOutcomes, ru \in RecordOutcomes,
          es \in EstimateOutcomes, ge \in GenerateOutcomes :
          poc = [pc |-> "start",
                 user_email |-> email, max_results |-> mr,
                 lookup |-> l1, second_lookup |-> l2,
                 summary |-> su, recording |-> ru,
                 estimate |-> es, generate |-> ge,
                 subscription_info |-> Null, usage_summary |-> Null,
                 credits_charged |-> Null, llm_results |-> Null,
                 usage_record |-> Null, credit_summary |-> Null,
                 lookups |-> 0, llm_calls |-> 0, recording_calls |-> 0,
                 recorded |-> <<>>,
                 path |-> "main", resp |-> Null]

PocFrame == UNCHANGED <<store, contact, response, meter, creation, call, checkout, task>>

\* the sign-in check: without user_email the handler raises
\* HTTPException(401) inside its own try block
PocSignIn ==
    /\ poc.pc = "start"
    /\ poc' = [poc EXCEPT !.pc = IF poc.user_email = NoEmail THEN "except" ELSE "lookup"]
    /\ PocFrame

\* subscription lookup and, for a subscriber, the usage summary
PocLookup ==
    /\ poc.pc = "lookup"
    /\ LET info == get_subscription_info_for_email(poc.user_email, poc.lookup)
       IN poc' = [poc EXCEPT
                     !.pc = "llm",
                     !.lookups = @ + 1,
                     !.subscription_info = info,
                     !.usage_summary =
                         IF info # Null
                         THEN get_usage_summary(info.subscription_item_id, poc.summary)
                         ELSE Null]
    /\ PocFrame

\* the cost estimate and the recommendation call
PocLlm ==
    /\ poc.pc = "llm"
    /\ poc' = [poc EXCEPT
                  !.pc = "meter",
                  !.llm_calls = @ + 2,
                  !.credits_charged = estimate_credit_cost(poc.estimate),
                  !.llm_results = call_llm_api(poc.generate)]
    /\ PocFrame

\* usage recording and the credit summary, for a subscriber only
PocMeter ==
    /\ poc.pc = "meter"
    /\ LET info == poc.subscription_info
       IN IF info # Null
          THEN poc' = [poc EXCEPT
                  !.pc = "build",
                  !.usage_record = record_usage(info.subscription_item_id,
                                                poc.credits_charged, poc.recording),
                  !.recording_calls =
                      IF UsageRecordingCalled(info.subscription_item_id,
                                              poc.credits_charged)
                      THEN @ + 1 ELSE @,
                  !.recorded = Append(@, poc.credits_charged),
                  !.credit_summary =
                      CreditSummary(info,
                          project_credit_balances(info.included_credits,
                                                  poc.usage_summary,
                                                  poc.credits_charged))]
          ELSE poc' = [poc EXCEPT !.pc = "build"]
    /\ PocFrame

\* the response is built from the LLM results, or building it raises
PocBuild ==
    /\ poc.pc = "build"
    /\ IF BuildRaises(poc.llm_results, poc.max_results)
       THEN poc' = [poc EXCEPT !.pc = "except"]
       ELSE poc' = [poc EXCEPT
                       !.pc = "done",
                       !.resp = PocMatchResponse(poc.llm_results, poc.max_results,
                                                 poc.subscription_info # Null,
                                                 poc.credits_charged,
                                                 poc.credit_summary)]
    /\ PocFrame

\* faulty variant: the fallback records usage for the subscription it finds
PocFallback_RecordsAgain ==
    /\ poc.pc = "except"
    /\ LET fallback_subscription ==
               IF poc.user_email # NoEmail
               THEN get_subscription_info_for_email(poc.user_email, poc.second_lookup)
               ELSE Null
       IN poc' = [poc EXCEPT
                     !.pc = "done",
                     !.path = "fallback",
                     !.lookups = IF poc.user_email # NoEmail THEN @ + 1 ELSE @,
                     !.recorded = IF fallback_subscription # Null
                                  THEN Append(@, CREDIT_COST_DEFAULT) ELSE @,
                     !.resp = PocMatchResponse(MOCK_LLM_RESULTS, poc.max_results,
                                               fallback_subscription # Null,
                                               Null, Null)]
    /\ PocFrame

\* `except Exception`: the lookup is repeated and the mock results returned
PocFallback ==
    /\ poc.pc = "except"
    /\ LET fallback_subscription ==
               IF poc.user_email # NoEmail
               THEN get_subscription_info_for_email(poc.user_email, poc.second_lookup)
               ELSE Null
       IN poc' = [poc EXCEPT
                     !.pc = "done",
                     !.path = "fallback",
                     !.lookups = IF poc.user_email # NoEmail THEN @ + 1 ELSE @,
                     !.resp = PocMatchResponse(MOCK_LLM_RESULTS, poc.max_results,
                                               fallback_subscription # Null,
                                               Null, Null)]
    /\ PocFrame

NextPoc ==
    \/ PocSignIn
    \/ PocLookup
    \/ PocLlm
    \/ PocMeter
    \/ PocBuild
    \/ PocFallback

SpecPoc == InitPoc /\ [][NextPoc]_vars

\* ================================================ credit cost estimation
\* estimate_credit_cost (session-only route) and assess_credit_cost
\* (database-backed route) applied to drawn queries, provider answers and
\* deployments.
MaxText == 2
\* characters of an LLM answer: digits inside and outside 1..5, a non-digit
TextChars == {"0", "3", "7", "x"}
Texts == SeqsUpTo(TextChars, MaxText)

IsDigit(c) == c \in {"0", "3", "7"}
DigitValue(c) == CASE c = "0" -> 0 [] c = "3" -> 3 [] c = "7" -> 7
Digits(text) == SelectSeq(text, IsDigit)

RECURSIVE IntOf(_)
IntOf(ds) ==
    IF ds = <<>> THEN 0
    ELSE IntOf(SubSeq(ds, 1, Len(ds) - 1)) * 10 + DigitValue(ds[Len(ds)])

\* a query as far as the estimators look at it: its length and the length
\* of query.strip()
Query(len, stripped) == [len |-> len, stripped |-> stripped]
QueryChoices ==
    {Query(0, 0), Query(2, 0), Query(100, 100), Query(250, 250), Query(250, 239)}

\* CREDIT_COST_MIN, CREDIT_COST_MAX and CREDIT_COST_DEFAULT of a deployment
CostConfigs ==
    {[min |-> a, max |-> b, default |-> d] :
        a \in {1, 2}, b \in {2, 10}, d \in {1, 3, 12}}

\* what the provider does when asked for an estimate
ProviderAnswers ==
    {[kind |-> "unconfigured"], [kind |-> "timeout"]}
    \cup {[kind |-> "text", text |-> t] : t \in Texts}

Raised == [kind |-> "raise"]
Returned(v) == [kind |-> "return", value |-> v]

\* LLMProvider._parse_credit_number
parse_credit_number(text) ==
    IF Digits(text) = <<>> THEN Raised ELSE Returned(IntOf(Digits(text)))

\* LLMProvider._estimate_openai / _estimate_gemini
provider_estimate(answer) ==
    IF answer.kind = "text" THEN parse_credit_number(answer.text) ELSE Raised

\* LLMProvider.estimate_credit_cost: every exception of the provider call is
\* caught and the default handed back
provider_estimate_credit_cost(answer, default) ==
    IF provider_estimate(answer).kind = "return"
    THEN Returned(provider_estimate(answer).value)
    ELSE Returned(default)

clamp(value, cfg) == max(cfg.min, min(cfg.max, value))

\* max(len(query.strip()) // 120, CREDIT_COST_DEFAULT), `or` CREDIT_COST_DEFAULT
heuristic(query, cfg) ==
    LET h == max(query.stripped \div 120, cfg.default)
    IN IF h = 0 THEN cfg.default ELSE h

\* matching_poc.estimate_credit_cost in full
estimate_credit_cost_route(query, answer, cfg) ==
    IF query.len = 0 THEN cfg.default
    ELSE LET raw == provider_estimate_credit_cost(answer, cfg.default)
         IN IF raw.kind = "return"
            THEN clamp(raw.value, cfg)
            ELSE clamp(heuristic(query, cfg), cfg)

\* what the Gemini call of assess_credit_cost does
AssessAnswers ==
    {[kind |-> "raises"], [kind |-> "not_gemini"]}
    \cup {[kind |-> "text", text |-> t] : t \in Texts}

\* the first character that is a digit between 1 and 5, if any
RECURSIVE FirstCost(_)
FirstCost(text) ==
    IF text = <<>> THEN 0
    ELSE IF IsDigit(Head(text)) /\ DigitValue(Head(text)) >= 1 /\ DigitValue(Head(text)) <= 5
         THEN DigitValue(Head(text))
         ELSE FirstCost(Tail(text))

\* LLMService.assess_credit_cost
assess_credit_cost(answer) ==
    IF answer.kind = "text" /\ FirstCost(answer.text) # 0
    THEN FirstCost(answer.text)
    ELSE 1

InitCost ==
    /\ users = [u \in Users |-> UserRow(SignupCredits)]
    /\ matches = <<>>
    /\ usage_log = <<>>
    /\ now = 0
    /\ sess = [s \in Sessions |-> IdleSess]
    /\ cleanup_queue = <<>>
    /\ nops = 0
    /\ contact = NoContact
    /\ response = NoPreview
    /\ meter = NoMeter
    /\ creation = NoCreation
    /\ poc = NoPoc
    /\ checkout = NoCheckout
    /\ task = NoTask
    /\ \/ \E q \in QueryChoices, a \in ProviderAnswers, cfg \in CostConfigs :
             call = [fn |-> "estimate_credit_cost", pc |-> "called",
                     query |-> q, answer |-> a, cfg |-> cfg]
       \/ \E a \in AssessAnswers :
             call = [fn |-> "assess_credit_cost", pc |-> "called", answer |-> a]

CallFrame == UNCHANGED <<store, contact, response, meter, creation, poc, checkout, task>>

ApplyEstimate ==
    /\ call.fn = "estimate_credit_cost"
    /\ call.pc = "called"
    /\ call' = [fn |-> call.fn, pc |-> "returned",
                query |-> call.query, answer |-> call.answer, cfg |-> call.cfg,
                result |-> estimate_credit_cost_route(call.query, call.answer, call.cfg)]
    /\ CallFrame

ApplyAssess ==
    /\ call.fn = "assess_credit_cost"
    /\ call.pc = "called"
    /\ call' = [fn |-> call.fn, pc |-> "returned", answer |-> call.answer,
                result |-> assess_credit_cost(call.answer)]
    /\ CallFrame

NextCost == ApplyEstimate \/ ApplyAssess

SpecCost == InitCost /\ [][NextCost]_vars

\* =============================================== check_subscription_expiry
\* the classification applied to drawn expiry times and clock readings
MaxClock == 3
\* seconds left until the expiry: around zero and around each window's edge
RemainingChoices ==
    {0 - 1, 0, 1}
    \cup {d * SecondsPerDay + e :
            d \in {ExpiringSoonDays, ExpiringSoonDays + 1,
                   ExpiringMonthDays, ExpiringMonthDays + 1},
            e \in {0 - 1, 0, 1}}

InitExpiry ==
    /\ users = [u \in Users |-> UserRow(SignupCredits)]
    /\ matches = <<>>
    /\ usage_log = <<>>
    /\ now = 0
    /\ sess = [s \in Sessions |-> IdleSess]
    /\ cleanup_queue = <<>>
    /\ nops = 0
    /\ contact = NoContact
    /\ response = NoPreview
    /\ meter = NoMeter
    /\ creation = NoCreation
    /\ poc = NoPoc
    /\ checkout = NoCheckout
    /\ task = NoTask
    /\ \E t \in 1..(1 + MaxClock), st \in {"active", "trialing", "past_due", "none"} :
          \/ \E left \in RemainingChoices :
                call = [fn |-> "check_subscription_expiry", pc |-> "called", utcnow |-> t,
                        user |-> [UserRow(0) EXCEPT !.subscription_status = st,
                                                    !.subscription_expires_at = t + left]]
          \/ call = [fn |-> "check_subscription_expiry", pc |-> "called", utcnow |-> t,
                     user |-> [UserRow(0) EXCEPT !.subscription_status = st]]

ApplyExpiryCheck ==
    /\ call.fn = "check_subscription_expiry"
    /\ call.pc = "called"
    /\ LET st == check_subscription_expiry(call.user, call.utcnow)
       IN call' = [fn |-> call.fn, pc |-> "returned", utcnow |-> call.utcnow,
                   user |-> call.user,
                   status |-> st, action_needed |-> action_needed(st)]
    /\ CallFrame

NextExpiry == ApplyExpiryCheck

SpecExpiry == InitExpiry /\ [][NextExpiry]_vars

\* ================================ cleanup_expired_subscriptions in detail
\* One run of the task over drawn user rows.  The task owns one session for
\* the whole loop: attribute writes stay in the session until a commit, a
\* commit flushes every pending write of the session, a rollback drops them.
\* What the billing provider and the database do for each user is drawn when
\* the run starts.

\* the clock reading of the run
TaskNow == 10
\* stored expiry times: none, passed, inside the 7 day window, far away
TaskExpiryChoices == {NoTime, 5, TaskNow + SecondsPerDay, TaskNow + 40 * SecondsPerDay}
TaskStatusChoices == {"active", "past_due", "none"}
TaskRows ==
    {[UserRow(0) EXCEPT !.subscription_status = st,
                        !.stripe_subscription_id = IF st = "none" THEN NoSub ELSE SubId,
                        !.subscription_plan_id = IF st = "none" THEN NoPlan ELSE StarterPlan,
                        !.subscription_expires_at = e]
        : st \in TaskStatusChoices, e \in TaskExpiryChoices}

\* what happens while one user is processed:
\*   fine            nothing raises; the provider lists an active subscription
\*   none_found      nothing raises; the provider lists no active subscription
\*   check_raises    check_subscription_expiry raises
\*   commit_raises   the commit of handle_expired_subscription raises
\*   no_customer     the user has no stripe_customer_id
\*   list_raises     stripe.Subscription.list raises
\*   plan_raises     the plan lookup raises after status, id and expiry were set
\*   no_items        the subscription has no items: `plan` is unbound when the
\*                   result is built, after the commit
\*   flush_raises    the commit of sync_subscription_from_stripe raises while
\*                   flushing; its handler does not roll back, so the session
\*                   refuses further work until somebody does
Fates ==
    {"fine", "none_found", "check_raises", "commit_raises", "no_customer",
     "list_raises", "plan_raises", "no_items", "flush_raises"}

\* current_period_end of the subscription the provider lists
SyncedExpiry == TaskNow + 20 * SecondsPerDay

InactiveRow(u) ==
    [u EXCEPT !.subscription_status = "inactive",
              !.stripe_subscription_id = NoSub,
              !.subscription_expires_at = NoTime,
              !.subscription_plan_id = NoPlan]

\* the three attributes written before the plan lookup
PartlySyncedRow(u) ==
    [u EXCEPT !.stripe_subscription_id = SubId,
              !.subscription_status = "active",
              !.subscription_expires_at = SyncedExpiry]

SyncedRow(u) == [PartlySyncedRow(u) EXCEPT !.subscription_plan_id = StarterPlan]

\* sync_subscription_from_stripe on the session's user object: the object
\* afterwards, whether the session was committed, and the reported success
sync_subscription_from_stripe(u, fate) ==
    CASE fate \in {"no_customer", "list_raises"}
           -> [row |-> u, commit |-> FALSE, success |-> FALSE]
      [] fate = "none_found"
           -> [row |-> InactiveRow(u), commit |-> TRUE, success |-> TRUE]
      [] fate = "plan_raises"
           -> [row |-> PartlySyncedRow(u), commit |-> FALSE, success |-> FALSE]
      [] fate = "flush_raises"
           -> [row |-> u, commit |-> FALSE, success |-> FALSE]
      [] fate = "no_items"
           -> [row |-> PartlySyncedRow(u), commit |-> TRUE, success |-> FALSE]
      [] OTHER
           -> [row |-> SyncedRow(u), commit |-> TRUE, success |-> TRUE]

NotProcessed == [seen |-> FALSE, status |-> "none", success |-> FALSE]
Processed(st, ok) == [seen |-> TRUE, status |-> st, success |-> ok]

InitCleanup ==
    /\ matches = <<>>
    /\ usage_log = <<>>
    /\ now = TaskNow
    /\ sess = [s \in Sessions |-> IdleSess]
    /\ cleanup_queue = <<>>
    /\ nops = 0
    /\ contact = NoContact
    /\ response = NoPreview
    /\ meter = NoMeter
    /\ creation = NoCreation
    /\ poc = NoPoc
    /\ call = NoCall
    /\ checkout = NoCheckout
    /\ users \in [Users -> TaskRows]
    /\ \E fate \in [Users -> Fates] :
          task = [pc |-> "select", fate |-> fate, before |-> users,
                  session |-> users, selected |-> {}, unusable |-> FALSE,
                  result |-> [u \in Users |-> NotProcessed]]

TaskFrame ==
    UNCHANGED <<matches, usage_log, now, sess, nops,
                contact, response, meter, creation, poc, call, checkout>>

\* the users to check are queried once
TaskSelect ==
    /\ task.pc = "select"
    /\ cleanup_queue' = AscendingSeq(SelectedForCleanup(users))
    /\ task' = [task EXCEPT !.pc = "loop", !.selected = SelectedForCleanup(users)]
    /\ UNCHANGED users
    /\ TaskFrame

\* one iteration of the loop: the expiry check, then the clean-up of an expired
\* subscription or the re-sync of one that needs action; whatever is raised is
\* logged and the loop goes on
TaskStep ==
    /\ task.pc = "loop"
    /\ cleanup_queue # <<>>
    /\ ~task.unusable
    /\ LET u == Head(cleanup_queue)
           fate == task.fate[u]
           st == check_subscription_expiry(task.session[u], now)
       IN IF fate = "check_raises"
            THEN /\ task' = [task EXCEPT !.result[u] = Processed("raised", FALSE)]
                 /\ UNCHANGED users
          ELSE IF st = "expired"
            THEN IF fate = "commit_raises"
                   \* db.rollback(): every pending write of the session is dropped
                   THEN /\ task' = [task EXCEPT !.session = users,
                                                !.result[u] = Processed(st, FALSE)]
                        /\ UNCHANGED users
                   \* db.commit(): every pending write of the session is flushed
                   ELSE /\ users' = [task.session EXCEPT ![u] = ExpiredRow(@)]
                        /\ task' = [task EXCEPT !.session = users',
                                                !.result[u] = Processed(st, TRUE)]
          ELSE IF action_needed(st)
            THEN LET r == sync_subscription_from_stripe(task.session[u], fate)
                     written == [task.session EXCEPT ![u] = r.row]
                 IN IF r.commit
                      THEN /\ users' = written
                           /\ task' = [task EXCEPT !.session = written,
                                                   !.result[u] = Processed(st, r.success)]
                      ELSE /\ task' = [task EXCEPT !.session = written,
                                                   !.unusable = (fate = "flush_raises"),
                                                   !.result[u] = Processed(st, r.success)]
                           /\ UNCHANGED users
          ELSE /\ task' = [task EXCEPT !.result[u] = Processed(st, TRUE)]
               /\ UNCHANGED users
    /\ cleanup_queue' = Tail(cleanup_queue)
    /\ TaskFrame

\* an iteration on a session whose failed flush was never rolled back: the
\* first database access of the iteration raises.  Either the loop's handler
\* logs it and goes on, the rollback of handle_expired_subscription making the
\* session usable again, or reading user.id for the log line raises in turn
\* and the task ends in its outer handler.
TaskStepUnusable ==
    /\ task.pc = "loop"
    /\ cleanup_queue # <<>>
    /\ task.unusable
    /\ LET u == Head(cleanup_queue)
           st == check_subscription_expiry(task.session[u], now)
       IN \/ /\ task' = [task EXCEPT !.result[u] = Processed(st, FALSE),
                                     !.unusable = (st # "expired"),
                                     !.session = IF st = "expired" THEN users ELSE @]
             /\ cleanup_queue' = Tail(cleanup_queue)
          \/ /\ task' = [task EXCEPT !.pc = "done", !.session = users]
             /\ cleanup_queue' = <<>>
    /\ UNCHANGED users
    /\ TaskFrame

\* the loop is over: db.close() drops what is still pending
TaskClose ==
    /\ task.pc = "loop"
    /\ cleanup_queue = <<>>
    /\ task' = [task EXCEPT !.pc = "done", !.session = users]
    /\ UNCHANGED <<users, cleanup_queue>>
    /\ TaskFrame

NextCleanup == TaskSelect \/ TaskStep \/ TaskStepUnusable \/ TaskClose

SpecCleanup == InitCleanup /\ [][NextCleanup]_vars

\* ================================================ one checkout session
\* A credit purchase followed from the creation of its checkout session:
\* the checkout.session.completed webhook and the verify endpoint both
\* settle it.  Each handler runs in one database transaction and is taken
\* here as one step.

\* deliveries of the checkout.session.completed event for one session
MaxDeliveries == 2
\* calls of the verify endpoint for one session
MaxVerifies == 2
\* credits bought in the followed session
CheckoutCredits == {1, 2}

\* purchase_credits has created the session and its pending payment record
InitCheckout ==
    /\ matches = <<>>
    /\ usage_log = <<>>
    /\ now = 0
    /\ sess = [s \in Sessions |-> IdleSess]
    /\ cleanup_queue = <<>>
    /\ nops = 0
    /\ contact = NoContact
    /\ response = NoPreview
    /\ meter = NoMeter
    /\ creation = NoCreation
    /\ poc = NoPoc
    /\ call = NoCall
    /\ task = NoTask
    /\ \E owner \in Users, credits \in CheckoutCredits, balance \in 0..SignupCredits :
          /\ users = [u \in Users |->
                        UserRow(IF u = owner THEN balance ELSE SignupCredits)]
          /\ checkout = [status |-> "pending", user_id |-> owner,
                         credits_purchased |-> credits, credits |-> credits,
                         payment_status |-> "unpaid", before |-> balance,
                         deliveries |-> 0, verifies |-> 0, message |-> "none"]

CheckoutFrame ==
    UNCHANGED <<matches, now, sess, cleanup_queue, nops,
                contact, response, meter, creation, poc, call, task>>

\* the customer pays on the hosted checkout page
CustomerPays ==
    /\ checkout.payment_status = "unpaid"
    /\ checkout' = [checkout EXCEPT !.payment_status = "paid"]
    /\ UNCHANGED <<users, usage_log>>
    /\ CheckoutFrame

\* handle_successful_payment: one delivery of checkout.session.completed
handle_successful_payment ==
    /\ checkout.payment_status = "paid"
    /\ checkout.deliveries < MaxDeliveries
    /\ LET uid == checkout.user_id
       IN /\ users' = [users EXCEPT ![uid].credits_balance = @ + checkout.credits]
          /\ usage_log' = Append(usage_log, [user_id |-> uid,
                                             kind |-> "credit_purchase",
                                             amount |-> checkout.credits])
    /\ checkout' = [checkout EXCEPT !.status = "succeeded", !.deliveries = @ + 1]
    /\ CheckoutFrame

\* verify_stripe_payment called by user u for the session
verify_stripe_payment(u) ==
    /\ checkout.verifies < MaxVerifies
    /\ IF checkout.payment_status = "paid"
       THEN IF checkout.user_id = u /\ checkout.status = "pending"
            THEN /\ users' = [users EXCEPT
                                ![u].credits_balance = @ + checkout.credits_purchased]
                 /\ checkout' = [checkout EXCEPT !.status = "completed",
                                    !.verifies = @ + 1,
                                    !.message = "Payment verified and processed"]
            ELSE /\ users' = users
                 /\ checkout' = [checkout EXCEPT !.verifies = @ + 1,
                                    !.message = "Payment already processed"]
       ELSE /\ users' = users
            /\ checkout' = [checkout EXCEPT !.verifies = @ + 1,
                               !.message = "Payment not completed"]
    /\ UNCHANGED usage_log
    /\ CheckoutFrame

NextCheckout ==
    \/ CustomerPays
    \/ handle_successful_payment
    \/ \E u \in Users : verify_stripe_payment(u)

SpecCheckout == InitCheckout /\ [][NextCheckout]_vars

\* ================================================================ claims
\* steps of a reveal_match request, read off the session's position
RevealDecides(s) ==
    /\ sess[s].op = "reveal"
    /\ sess[s].pc = "load"
    /\ sess'[s].pc \in {"commit", "done"}

RevealCommits(s) ==
    /\ sess[s].op = "reveal"
    /\ sess[s].pc = "commit"
    /\ sess'[s].pc = "done"

RevealRows(uid) ==
    {i \in 1..Len(usage_log) :
        usage_log[i].kind = "contact_reveal" /\ usage_log[i].user_id = uid}

RevealedMatches(uid) ==
    {m \in 1..Len(matches) : matches[m].user_id = uid /\ matches[m].status = "revealed"}

AllStamped(rows) == \A i \in 1..Len(rows) : rows[i].revealed_at # NoTime

\* C1: concurrent reveal_match calls for one preview match write at most one
\* contact_reveal UsageLog row for it: a user never has more contact_reveal rows
\* than revealed matches.
C1_AtMostOneRevealRow ==
    \A u \in Users : Cardinality(RevealRows(u)) <= Cardinality(RevealedMatches(u))

\* what C2 asks of one step of session s
C2_RepeatReveal(s) ==
    LET mid == sess[s].match_id IN
    (/\ RevealDecides(s)
     /\ OwnsMatch(matches, mid, sess[s].user_id)
     /\ matches[mid].status = "revealed")
    => /\ UNCHANGED <<users, matches, usage_log>>
       /\ sess'[s].pc = "done"
       /\ sess'[s].resp.kind = "RevealResponse"
       /\ \A r \in Sessions \ {s} :
            (/\ sess[r].op = "reveal" /\ sess[r].pc = "done"
             /\ sess[r].match_id = mid
             /\ sess[r].resp.kind = "RevealResponse")
            => sess'[s].resp = sess[r].resp

\* C2: a reveal_match call that finds its match already revealed changes neither
\* balances, usage log, match status nor revealed_at, and answers with the same
\* result set as the other finished reveal of that match.
C2_RepeatRevealIdempotent == [][\A s \in Sessions : C2_RepeatReveal(s)]_vars

C2_Witness ==
    \E s, r \in Sessions :
        /\ s # r
        /\ sess[s].op = "reveal" /\ sess[s].pc = "done" /\ sess[s].method = "none"
        /\ sess[s].resp.kind = "RevealResponse"
        /\ sess[r].op = "reveal" /\ sess[r].pc = "done" /\ sess[r].method = "credits"
        /\ sess[r].match_id = sess[s].match_id
        /\ sess[r].resp = sess[s].resp
        /\ Cardinality(RevealRows(sess[s].user_id)) = 1

\* C3: a match enters the store with status preview, matches are never removed,
\* and the only status change is preview -> revealed.
C3_StatusForwardOnly ==
    [][/\ Len(matches') >= Len(matches)
       /\ \A m \in 1..Len(matches') :
            IF m <= Len(matches)
              THEN \/ matches'[m].status = matches[m].status
                   \/ (matches[m].status = "preview" /\ matches'[m].status = "revealed")
              ELSE matches'[m].status = "preview"]_vars

C3_Witness ==
    \E m \in 1..Len(matches) : matches[m].status = "revealed" /\ AllStamped(matches[m].results)

\* what C4 asks of one step of session s
C4_Denied(s) ==
    LET mid == sess[s].match_id IN
    (/\ RevealDecides(s)
     /\ OwnsMatch(matches, mid, sess[s].user_id)
     /\ matches[mid].status = "preview"
     /\ ~is_subscribed(sess[s].cu, now)
     /\ sess[s].cu.credits_balance < matches[mid].credit_cost)
    => /\ sess'[s].pc = "done"
       /\ sess'[s].resp = ErrorResp(402)
       /\ UNCHANGED <<users, matches, usage_log>>

\* C4: a reveal of a preview match by a caller whose loaded balance is below the
\* match's credit_cost and who is not subscribed ends with 402 and leaves
\* balances, matches, revealed_at and the usage log as they were.
C4_InsufficientDenied == [][\A s \in Sessions : C4_Denied(s)]_vars

C4_Witness ==
    \E s \in Sessions :
        /\ sess[s].op = "reveal" /\ sess[s].pc = "done"
        /\ sess[s].resp = ErrorResp(402)
        /\ matches[sess[s].match_id].status = "preview"
        /\ ~AllStamped(matches[sess[s].match_id].results)
        /\ users[sess[s].user_id].credits_balance < matches[sess[s].match_id].credit_cost
        /\ RevealRows(sess[s].user_id) = {}

\* what C5 asks of one step of session s
C5_Subscribed(s) ==
    LET mid == sess[s].match_id IN
    /\ (/\ RevealDecides(s)
        /\ OwnsMatch(matches, mid, sess[s].user_id)
        /\ matches[mid].status = "preview"
        /\ is_subscribed(sess[s].cu, now))
       => /\ sess'[s].pc = "commit"
          /\ sess'[s].method = "subscription"
          /\ sess'[s].cu.credits_balance = sess[s].cu.credits_balance
    /\ (RevealCommits(s) /\ sess[s].method = "subscription")
       => /\ UNCHANGED <<users, usage_log>>
          /\ matches'[mid].status = "revealed"
          /\ sess'[s].resp.kind = "RevealResponse"

\* C5: a reveal of a preview match by a subscribed caller takes the subscription
\* method whatever the balance and the cost, and neither its decision nor its
\* commit changes the balance or writes a usage row.
C5_SubscriptionFirst == [][\A s \in Sessions : C5_Subscribed(s)]_vars

C5_Witness ==
    \E s \in Sessions :
        /\ sess[s].op = "reveal" /\ sess[s].pc = "done"
        /\ sess[s].method = "subscription"
        /\ sess[s].resp.kind = "RevealResponse"
        /\ matches[sess[s].match_id].status = "revealed"
        /\ users[sess[s].user_id].credits_balance = SignupCredits
        /\ users[sess[s].user_id].credits_balance >= matches[sess[s].match_id].credit_cost
        /\ RevealRows(sess[s].user_id) = {}

\* C6: no committed credits_balance is negative.
C6_BalanceNonNegative == \A u \in Users : users[u].credits_balance >= 0

C6_Witness ==
    \E s \in Sessions :
        /\ sess[s].op = "adjust" /\ sess[s].pc = "done" /\ sess[s].resp.code = 200
        /\ users[sess[s].user_id].credits_balance = 0
        /\ RevealRows(sess[s].user_id) # {}

\* what C7 asks of one step of session s
C7_RevealStep(s) ==
    LET mid == sess[s].match_id
        uid == sess[s].user_id
    IN (sess[s].op = "reveal" /\ sess[s].pc \in {"load", "commit"} /\ sess'[s] # sess[s])
       => /\ (OwnsMatch(matches, mid, uid) /\ matches'[mid].status = "preview")
             => UNCHANGED <<users, matches, usage_log>>
          /\ ~OwnsMatch(matches, mid, uid) => UNCHANGED <<users, matches, usage_log>>
          /\ (/\ OwnsMatch(matches, mid, uid)
              /\ matches[mid].status = "preview"
              /\ matches'[mid].status = "revealed"
              /\ sess[s].method = "credits")
             => /\ users'[uid].credits_balance = sess[s].loaded - sess[s].m_cost
                /\ usage_log' = Append(usage_log, LogRow(uid, "contact_reveal", sess[s].m_cost))
                /\ AllStamped(matches'[mid].results)

\* C7: a reveal commits the deduction, the contact_reveal row, the status
\* change and the revealed_at stamps in one step or not at all: a step of a
\* reveal request that leaves its match in preview (an abort included) changes
\* neither balances nor the usage log, and the step that moves the match to
\* revealed by the credit method writes the deducted balance, the usage row and
\* every revealed_at together.
C7_RevealAtomic == [][\A s \in Sessions : C7_RevealStep(s)]_vars

C7_Witness ==
    \E s, r \in Sessions :
        /\ sess[s].op = "reveal" /\ sess[s].pc = "aborted" /\ sess[s].method = "credits"
        /\ sess[r].op = "reveal" /\ sess[r].pc = "done" /\ sess[r].method = "credits"
        /\ sess[r].match_id = sess[s].match_id
        /\ matches[sess[r].match_id].status = "revealed"
        /\ AllStamped(matches[sess[r].match_id].results)
        /\ users[sess[r].user_id].credits_balance
             = SignupCredits - matches[sess[r].match_id].credit_cost
        /\ Cardinality(RevealRows(sess[r].user_id)) = 1

\* what C8 asks of one step of session s
C8_Foreign(s) ==
    LET mid == sess[s].match_id IN
    (/\ RevealDecides(s)
     /\ mid \in 1..Len(matches)
     /\ matches[mid].user_id # sess[s].user_id)
    => /\ sess'[s].pc = "done"
       /\ sess'[s].resp = ErrorResp(404)
       /\ UNCHANGED <<users, matches, usage_log>>

\* C8: a reveal of an existing match that belongs to another user ends with
\* 404, never 402, and changes neither matches, balances nor the usage log.
C8_ForeignMatchNotFound == [][\A s \in Sessions : C8_Foreign(s)]_vars

C8_Witness ==
    \E s \in Sessions :
        /\ sess[s].op = "reveal" /\ sess[s].pc = "done"
        /\ sess[s].resp = ErrorResp(404)
        /\ sess[s].match_id \in 1..Len(matches)
        /\ matches[sess[s].match_id].user_id # sess[s].user_id
        /\ matches[sess[s].match_id].status = "preview"
        /\ users[sess[s].user_id].credits_balance >= matches[sess[s].match_id].credit_cost
        /\ usage_log = <<>>

\* C9: a response rendered for an unpaid or unrevealed request (the preview of
\* create_match, the MatchResult of create_match_poc with revealed = false)
\* holds the contact's plain email in no field and the company name in no
\* field unmasked.
C9_UnpaidResponseMasked ==
    /\ response.kind = "PersonPreview"
       => /\ response.email_masked # email_to_use(contact)
          /\ response.company_name # contact.company
    /\ (response.kind = "MatchResult" /\ ~response.revealed)
       => /\ contact.email_plain # <<>>
             => contact.email_plain \notin
                  {response.email_masked, response.email_plain, response.raw_email}
          /\ contact.company \notin {response.company_name, response.company_blurred}

C11_ProjectionAsWorded ==
    meter.kind = "result" =>
        LET b == meter.balances
            used == meter.usage_summary.used
            inc == meter.included_credits
            add == meter.additional_usage
        IN /\ b.used = used
           /\ b.remaining = (IF inc - used > 0 THEN inc - used ELSE 0)
           /\ b.projected_used = used + add
           /\ b.projected_remaining =
                (IF inc - (used + add) > 0 THEN inc - (used + add) ELSE 0)
           /\ b.pending = meter.usage_summary.pending + add

\* C11, amended: the same equations with a negative additional_usage counted
\* as zero: projected_used = used + max(additional_usage, 0) and
\* pending = summary.pending + max(additional_usage, 0).
C11_ProjectionClamped ==
    meter.kind = "result" =>
        LET b == meter.balances
            used == meter.usage_summary.used
            inc == meter.included_credits
            add == IF meter.additional_usage < 0 THEN 0 ELSE meter.additional_usage
        IN /\ b.used = used
           /\ b.remaining = (IF inc - used > 0 THEN inc - used ELSE 0)
           /\ b.projected_used = used + add
           /\ b.projected_remaining =
                (IF inc - (used + add) > 0 THEN inc - (used + add) ELSE 0)
           /\ b.pending = meter.usage_summary.pending + add

C11_Witness ==
    /\ meter.kind = "result"
    /\ meter.included_credits = StarterCredits
    /\ meter.usage_summary = UsageSummary(10, 0)
    /\ meter.additional_usage = 5
    /\ meter.balances = [used |-> 10, remaining |-> 40, pending |-> 5,
                         projected_used |-> 15, projected_remaining |-> 35]

\* the LLM recommendations that reference a known candidate
ValidAnswerCount(c) ==
    Cardinality({i \in 1..Len(c.llm.person_ids) : c.llm.person_ids[i] \in 1..c.pool})

\* C12: a create_match that answers with a MatchResponse persisted and returned
\* no more than max_results rows, and exactly max_results rows when the LLM
\* returned at least max_results valid recommendations.
C12_ResultCount ==
    (creation.pc = "done" /\ creation.resp.kind = "MatchResponse")
    => LET rows == matches[creation.match_id].results IN
       /\ Len(rows) = Len(creation.resp.results)
       /\ Len(rows) <= creation.max_results
       /\ (creation.llm.kind = "answer" /\ ValidAnswerCount(creation) >= creation.max_results)
          => Len(rows) = creation.max_results

\* C13: when the LLM call fails and the pool holds at least max_results
\* candidates, create_match answers with a MatchResponse of exactly max_results
\* fallback entries and all-zero token usage, never with an error.
C13_FallbackOnLlmFailure ==
    (/\ creation.pc = "done"
     /\ creation.llm.kind \in {"call_failed", "raised"}
     /\ creation.pool >= creation.max_results)
    => /\ creation.resp.kind = "MatchResponse"
       /\ Len(creation.resp.results) = creation.max_results
       /\ \A i \in 1..Len(creation.resp.results) :
            creation.resp.results[i].origin \in {"backfill", "fallback"}
       /\ creation.resp.token_usage = ZeroTokens

\* C14: create_match on an empty candidate pool answers 404 and persists no
\* Match, MatchResult or UsageLog row.
C14_EmptyPoolNotFound ==
    (creation.pc = "done" /\ creation.pool = 0)
    => /\ creation.resp = ErrorResp(404)
       /\ matches = <<>>
       /\ usage_log = <<>>

\* the character mask_email is expected to put at position i of an address
\* with one "@": a part of length up to `short` is all stars, a longer part
\* keeps its first and last character
MaskedChar(part_len, pos, c, short) ==
    IF part_len <= short THEN "*"
    ELSE IF pos = 1 \/ pos = part_len THEN c
    ELSE "*"

FirstIndexOf(s, c) == CHOOSE i \in 1..Len(s) : s[i] = c /\ \A j \in 1..(i - 1) : s[j] # c

\* the expected mask, position by position; label_short is the length up to
\* which the first domain label is starred out entirely, and dotless tells
\* whether a domain without "." is masked as one label
ExpectedMask(email, label_short, dotless) ==
    IF ~Contains(email, "@") THEN email
    ELSE LET at == FirstIndexOf(email, "@")
             has_dot == \E i \in (at + 1)..Len(email) : email[i] = "."
             dot == IF has_dot
                      THEN CHOOSE i \in (at + 1)..Len(email) :
                             email[i] = "." /\ \A j \in (at + 1)..(i - 1) : email[j] # "."
                      ELSE Len(email) + 1
         IN [i \in 1..Len(email) |->
               IF i < at THEN MaskedChar(at - 1, i, email[i], 2)
               ELSE IF i = at THEN "@"
               ELSE IF i >= dot THEN email[i]
               ELSE IF ~has_dot /\ ~dotless THEN email[i]
               ELSE MaskedChar(dot - at - 1, i - at, email[i], label_short)]

UnpaidPocRendered == response.kind = "MatchResult" /\ ~response.revealed

\* C15 as worded: the first domain label is masked by the rule of the local
\* part (all stars up to length 2, else first and last character kept), also
\* when the domain has no further label.
C15_MaskAsWorded ==
    UnpaidPocRendered => response.email_masked = ExpectedMask(contact.email_plain, 2, TRUE)

\* C15, amended: the local part is all stars up to length 2 and keeps its first
\* and last character otherwise; the first domain label is all stars up to
\* length 3 and keeps its first and last character otherwise; the remaining
\* labels are kept; a domain without "." is kept whole; an input without "@"
\* is returned unchanged.
C15_MaskEmail ==
    UnpaidPocRendered => response.email_masked = ExpectedMask(contact.email_plain, 3, FALSE)

C15_Witness ==
    /\ UnpaidPocRendered
    /\ contact.email_plain = <<"a", "b", "a", "@", "a", "b", "a", "b", ".", "c">>
    /\ response.email_masked = <<"a", "*", "a", "@", "a", "*", "*", "b", ".", "c">>

\* a create_match_poc request has been answered
PocAnswered == poc.pc = "done"

\* C16: a create_match_poc request without user_email ends with the 401
\* error: no MatchResponse is returned, and neither the LLM nor the usage
\* recording has been called.
C16_NoEmailUnauthorized ==
    (PocAnswered /\ poc.user_email = NoEmail)
    => /\ poc.resp = ErrorResp(401)
       /\ poc.llm_calls = 0
       /\ poc.recording_calls = 0

\* the billing provider raised during the lookup
LookupRaised(outcome) == outcome \in {"list_raises", "product_raises"}

\* what every answered request of a signed-in caller shows of the usage
\* calls: a raising summary call leaves the zeroed summary, a raising
\* recording call leaves no record, and a response was returned
UsageCallsDegrade ==
    /\ (poc.subscription_info # Null /\ poc.summary.kind = "raises")
       => poc.usage_summary = UsageSummary(0, 0)
    /\ poc.recording = "raises" => poc.usage_record = Null
    /\ poc.resp # Null
    /\ poc.resp.kind = "MatchResponse"

\* C17 as worded: whichever call of the lookup raises, the lookup returns
\* null and the response is unpaid and carries no credit summary.
C17_DegradeAsWorded ==
    (PocAnswered /\ poc.user_email # NoEmail)
    => /\ UsageCallsDegrade
       /\ LookupRaised(poc.lookup)
          => /\ poc.subscription_info = Null
             /\ ~poc.resp.revealed
             /\ poc.resp.credit_summary = Null

\* the outcome of the lookup whose result the returned response is built from
DecidingLookup == IF poc.path = "main" THEN poc.lookup ELSE poc.second_lookup

\* C17: a raising customer or subscription listing makes the lookup return
\* null, a raising product retrieval only leaves plan_name null; the usage
\* calls degrade without propagating; a response is always returned, and it
\* is unpaid with no credit summary when the lookup it is built from
\* returned null because the listing raised.
C17_Degrade ==
    (PocAnswered /\ poc.user_email # NoEmail)
    => /\ UsageCallsDegrade
       /\ poc.lookup = "list_raises" => poc.subscription_info = Null
       /\ poc.lookup = "product_raises"
          => /\ poc.subscription_info # Null
             /\ poc.subscription_info.plan_name = Null
       /\ DecidingLookup = "list_raises"
          => /\ ~poc.resp.revealed
             /\ poc.resp.credit_summary = Null

C17_Witness ==
    /\ PocAnswered
    /\ poc.user_email # NoEmail
    /\ poc.lookup = "list_raises"
    /\ poc.path = "main"
    /\ poc.lookups = 1
    /\ poc.resp.kind = "MatchResponse"
    /\ ~poc.resp.revealed

NoneStamped(rows) == \A i \in 1..Len(rows) : rows[i].revealed_at = NoTime

\* C18 as worded: in every committed state a match has status revealed if and
\* only if every one of its match_results rows has a non-null revealed_at.
C18_RevealedIffAllStamped ==
    \A m \in 1..Len(matches) :
        (matches[m].status = "revealed") <=> AllStamped(matches[m].results)

\* C18: in every committed state every row of a revealed match has a non-null
\* revealed_at and no row of a preview match has one; for a match with at
\* least one row, revealed is therefore equivalent to all rows being stamped.
C18_StampedWithStatus ==
    \A m \in 1..Len(matches) :
        /\ matches[m].status = "revealed" => AllStamped(matches[m].results)
        /\ matches[m].status = "preview" => NoneStamped(matches[m].results)
        /\ Len(matches[m].results) > 0
           => ((matches[m].status = "revealed") <=> AllStamped(matches[m].results))

C18_Witness ==
    \E m \in 1..Len(matches) :
        /\ matches[m].status = "revealed"
        /\ Len(matches[m].results) = 2
        /\ AllStamped(matches[m].results)

\* what C19 asks of one step of session s
C19_RevealStep(s) ==
    LET uid == sess[s].user_id
        mid == sess[s].match_id
    IN /\ (RevealCommits(s) /\ sess[s].method = "credits")
          => /\ users'[uid].credits_balance
                  = users[uid].credits_balance - matches[mid].credit_cost
             /\ usage_log' = Append(usage_log,
                                    LogRow(uid, "contact_reveal", matches[mid].credit_cost))
       /\ (RevealCommits(s) /\ sess[s].method # "credits") => usage_log' = usage_log
       /\ RevealDecides(s) => usage_log' = usage_log

\* C19: a reveal_match that succeeds by the credit method subtracts exactly
\* the match's credit_cost from the committed credits_balance and appends
\* exactly one contact_reveal usage row with amount = credit_cost; a reveal by
\* subscription, a denied reveal and a repeated reveal append no usage row.
C19_CreditRevealCharges == [][\A s \in Sessions : C19_RevealStep(s)]_vars

\* what C20 asks of one step of session s
C20_CostStep(s) ==
    LET mid == sess[s].match_id
    IN /\ (sess[s].op = "create" /\ Len(matches') = Len(matches) + 1)
          => matches'[Len(matches')].credit_cost \in 1..MaxCost
       /\ (RevealDecides(s) /\ sess'[s].method = "credits")
          => sess'[s].cu.credits_balance
                = sess[s].cu.credits_balance - matches[mid].credit_cost
       /\ (RevealCommits(s) /\ sess[s].method = "credits")
          => usage_log'[Len(usage_log')].amount = matches'[mid].credit_cost

\* C20: the credit_cost of a match is written when create_match inserts the
\* row and no later step changes it or removes the row; reveal_match deducts
\* and logs the stored value.
C20_CostFrozen ==
    [][/\ Len(matches') >= Len(matches)
       /\ \A m \in 1..Len(matches) : matches'[m].credit_cost = matches[m].credit_cost
       /\ \A s \in Sessions : C20_CostStep(s)]_vars

C20_Witness ==
    \E s \in Sessions :
        /\ sess[s].op = "reveal"
        /\ sess[s].pc = "done"
        /\ sess[s].method = "credits"
        /\ sess[s].resp.kind = "RevealResponse"
        /\ matches[sess[s].match_id].status = "revealed"
        /\ matches[sess[s].match_id].credit_cost >= 1
        /\ \E i \in 1..Len(usage_log) :
              /\ usage_log[i].kind = "contact_reveal"
              /\ usage_log[i].amount = matches[sess[s].match_id].credit_cost

\* C21: a create_match_poc request calls record_usage at most once, with the
\* credits_charged of that request as quantity, only when the first lookup
\* resolved a metered subscription, and the exception fallback adds no call.
C21_RecordOnce ==
    /\ poc.pc # "none"
       => /\ Len(poc.recorded) <= 1
          /\ \A i \in 1..Len(poc.recorded) :
                /\ poc.recorded[i] = poc.credits_charged
                /\ poc.subscription_info # Null
    /\ (PocAnswered /\ poc.subscription_info = Null) => poc.recorded = <<>>
    /\ PocAnswered => poc.recording_calls <= Len(poc.recorded)

C21_Witness ==
    /\ PocAnswered
    /\ poc.path = "fallback"
    /\ poc.second_lookup = "subscription"
    /\ poc.recorded = <<3>>
    /\ poc.recording_calls = 1

EstimateReturned == call.fn = "estimate_credit_cost" /\ call.pc = "returned"
AssessReturned == call.fn = "assess_credit_cost" /\ call.pc = "returned"

\* C22: for every query, every provider answer or failure and every
\* deployment with CREDIT_COST_MIN <= CREDIT_COST_MAX, estimate_credit_cost
\* returns a value within [CREDIT_COST_MIN, CREDIT_COST_MAX], and
\* assess_credit_cost returns a value within [1, 5].
C22_CostInRange ==
    /\ EstimateReturned => call.result \in call.cfg.min..call.cfg.max
    /\ AssessReturned => call.result \in 1..5

\* the LLM credit estimate could not be obtained
EstimateUnavailable(answer) == provider_estimate(answer).kind = "raise"

\* C23: when the LLM credit estimate cannot be obtained for a non-empty query,
\* estimate_credit_cost returns max(len(query) // 120, CREDIT_COST_DEFAULT)
\* clamped into [CREDIT_COST_MIN, CREDIT_COST_MAX].
C23_HeuristicFallback ==
    (EstimateReturned /\ call.query.len > 0 /\ EstimateUnavailable(call.answer))
    => call.result = clamp(max(call.query.len \div 120, call.cfg.default), call.cfg)

Distinct(ids) == \A i, j \in 1..Len(ids) : ids[i] = ids[j] => i = j

\* C24: the recommendations handed back by _validate_recommendations, and the
\* match_results rows persisted from them, reference pairwise different
\* person ids, all of them ids of the candidate pool, whatever list the LLM
\* returned.
C24_RecommendationsDeduplicated ==
    (creation.pc \in {"persist", "log", "done"} /\ creation.llm.kind # "raised"
     /\ creation.pool > 0)
    => /\ Distinct(PersonIds(creation.recommendations))
       /\ SeqRange(PersonIds(creation.recommendations)) \subseteq SeqRange(Candidates(creation.pool))
       /\ creation.pc \in {"log", "done"}
          => LET rows == matches[creation.match_id].results
             IN /\ Distinct([i \in 1..Len(rows) |-> rows[i].person_id])
                /\ \A i \in 1..Len(rows) : rows[i].person_id \in SeqRange(Candidates(creation.pool))

ExpiryChecked == call.fn = "check_subscription_expiry" /\ call.pc = "returned"
\* seconds between the clock reading and the stored expiry
Remaining == call.user.subscription_expires_at - call.utcnow

OwnFailure(st, fate) ==
    \/ fate = "check_raises"
    \/ st = "expired" /\ fate = "commit_raises"
    \/ /\ st = "expiring_soon"
       /\ fate \in {"no_customer", "list_raises", "plan_raises", "no_items", "flush_raises"}

\* the row a user ends with when the processing of that user does not fail
ExpectedRow(row, fate) ==
    LET st == check_subscription_expiry(row, TaskNow)
    IN IF st = "expired" THEN ExpiredRow(row)
       ELSE IF action_needed(st)
         THEN IF fate = "none_found" THEN InactiveRow(row) ELSE SyncedRow(row)
       ELSE row

\* C25: when a run of cleanup_expired_subscriptions is over, exactly the
\* selected users have been processed, whatever was raised for any of them;
\* a selected user whose own processing did not fail ends expired with cleared
\* fields if fully expired and re-synced if inside the expiring-soon window,
\* whatever happened to the other users; users not selected are untouched.
C25_EveryUserProcessed ==
    task.pc = "done"
    => \A u \in Users :
          LET chosen == u \in SelectedForCleanup(task.before)
              st == check_subscription_expiry(task.before[u], TaskNow)
          IN /\ chosen <=> task.result[u].seen
             /\ (chosen /\ ~OwnFailure(st, task.fate[u]))
                => users[u] = ExpectedRow(task.before[u], task.fate[u])
             /\ ~chosen => users[u] = task.before[u]

\* what C29 asks of the step that processes user u
C29_SyncStep(u) ==
    LET called == /\ task.pc = "loop"
                  /\ cleanup_queue # <<>>
                  /\ Head(cleanup_queue) = u
                  /\ task'.result[u].seen
                  /\ task'.result[u].status = "expiring_soon"
    IN /\ (called /\ ~task'.result[u].success) => users'[u] = users[u]
       /\ users'[u] # users[u]
          => /\ Head(cleanup_queue) = u
             /\ task'.result[u].success

\* C29: a sync_subscription_from_stripe that returns success = false leaves
\* the user's committed subscription fields as they were; the committed
\* fields of a user change only in a call for that user that returns
\* success = true.
C29_FailedSyncKeepsRow == [][\A u \in Users : C29_SyncStep(u)]_vars

\* session s commits its operation op in this step
Commits(s, op) ==
    /\ sess[s].op = op
    /\ sess[s].pc = "commit"
    /\ sess'[s].pc = "done"

\* what C27 asks of one step of session s
C27_BalanceStep(s) ==
    LET uid == sess[s].user_id
        mid == sess[s].match_id
        plan == sess[s].cu.subscription_plan_id
    IN /\ Commits(s, "payment")
          => users'[uid].credits_balance = users[uid].credits_balance + sess[s].arg
       /\ (Commits(s, "renewal") /\ plan # NoPlan)
          => users'[uid].credits_balance
                = users[uid].credits_balance + IncludedCredits(plan)
       /\ (Commits(s, "reveal") /\ sess[s].method = "credits"
           /\ matches[mid].status = "preview")
          => users'[uid].credits_balance
                = users[uid].credits_balance - matches[mid].credit_cost

\* C27: credits are conserved under every interleaving: every committed
\* payment confirmation and renewal raises the committed credits_balance by
\* exactly the credits it adds, and every credit reveal that turns a preview
\* match into a revealed one lowers it by exactly that match's credit_cost, so
\* that the balance always equals the initial balance plus what was added
\* minus what was spent, also when two such operations overlap.
C27_CreditsConserved == [][\A s \in Sessions : C27_BalanceStep(s)]_vars

\* credits the followed checkout session has added to its buyer's balance
CreditsAddedForSession ==
    users[checkout.user_id].credits_balance - checkout.before

\* C28: a paid checkout session adds its purchased credits to the user's
\* credits_balance at most once, whatever the order and the number of
\* deliveries of the checkout.session.completed webhook and of calls of the
\* verify endpoint for that session.
C28_SessionCreditedOnce ==
    checkout.status # "none"
        => CreditsAddedForSession <= checkout.credits_purchased

\* the answered request took the exception fallback, whose response carries
\* credits_charged = null and no credit_summary
AnsweredWithoutCharge == PocAnswered /\ poc.path = "fallback"

\* record_usage was called for the request and the provider created the
\* usage record
UsageRecorded == poc.recorded # <<>> /\ poc.usage_record # Null

\* C30: whenever create_match_poc has called record_usage with quantity q
\* for a request, the response of that request reports credits_charged = q;
\* a response with credits_charged = null and no credit_summary is returned
\* only for requests for which no usage was recorded.
C30_ChargeReported ==
    /\ (PocAnswered /\ UsageRecorded)
       => /\ ~AnsweredWithoutCharge
          /\ poc.resp.credits_charged = poc.recorded[1]
    /\ AnsweredWithoutCharge => ~UsageRecorded

====
